---------------------------- MODULE Spec2Model ----------------------------
(***************************************************************************)
(* Multi-objective reservoir scheduling: the coordinator                   *)
(* (ScheduleManager.optimize), the Pareto-front extraction and the         *)
(* strategy recommender (scheduleLAYER/strategy.py), and the evolutionary  *)
(* search the coordinator runs once per reservoir.                         *)
(***************************************************************************)
EXTENDS Integers, Sequences, FiniteSets, TLC

VARIABLES
    \* ---- ScheduleManager.optimize ----
    pc,             \* position of the optimize call: idle, loop, returned, raised
    data,           \* argument `data` (the context) of the current call
    objectives,     \* argument `objectives`: a dict, as a sequence of <<name, flag>>
    params,         \* argument `params`: [Q_min, Q_max, population_size]
    active_objs,    \* local active_objs
    reservoir_count,\* local reservoir_count
    reservoir_id,   \* loop variable of `for reservoir_id in range(1, count + 1)`
    all_results,    \* local all_results: one frame per successful reservoir
    all_strategies, \* local all_strategies
    results,        \* self.results
    ret,            \* value returned by the call
    error,          \* exception that left the call, "none" when there is none
    outcomes,       \* history: what minimize() gave for each reservoir processed
    built,          \* history: reservoir ids a problem instance was built for
    log,            \* messages printed by the current call
    results_before, \* history: self.results when the current call started
    ncalls,         \* number of optimize calls made on this manager
    is_cancelled,   \* ComputeWorker._is_cancelled of the worker that makes the calls
    \* ---- build_reservoir_strategy on one final population ----
    st_pc,          \* off, input, built
    st_active,      \* active_objs
    st_F,           \* F: one row of objective values per individual
    st_X,           \* X: one decision vector per individual
    st_out,         \* the strategy_info returned, or the exception raised
    \* ---- one run of the evolutionary search ----
    ga_pc,          \* off, start, vary, survive, done, failed
    ga_params,      \* the params dict optimize was given
    ga_prob,        \* the _ReservoirSchedulingProblem of the run
    ga_alg,         \* the algorithm's settings: pop_size, n_gen
    ga_gen,         \* generations completed
    ga_pop,         \* the population: one decision vector per individual
    ga_clipped,     \* history: clipping has changed a gene during this run
    ga_off,         \* the offspring after clipping
    ga_out,         \* the strategy built from the final population
    ga_df,          \* the reservoir's DataFrame built from the final population
    \* ---- the reference directions of one run ----
    rd_pc,          \* off, input, made
    rd_active,      \* active_objs
    rd_params,      \* the params dict
    rd_out,         \* ref_dirs, or the exception raised
    \* ---- ComputeThread and its ComputeWorker ----
    th_running,     \* QThread.isRunning()
    th_task,        \* ComputeThread._current_task
    th_params,      \* ComputeThread._task_params
    wk_pc,          \* where the worker thread stands, by source line
    wk_args,        \* the arguments the running worker method was called with
    wk_df,          \* run_schedule_optimization: results_df
    wk_i,           \* run_model_computation: reservoirs gone through
    wk_results,     \* run_model_computation: reservoir_results, as its key set
    wk_failures,    \* run_model_computation: failures, as (id, message) records
    signals,        \* history: the signals the current task has emitted
    started_with,   \* history: task kind and parameters at the task's start
    cancel_asked,   \* history: cancel_current_task came after the start and
                    \* before the completed signal
    stopped_at,     \* history: the cancellation check the task returned at, 0 if none
    last_ret,       \* history: what the last run_... request returned
    ntasks          \* number of tasks started

optVars == <<pc, data, objectives, params, active_objs, reservoir_count,
             reservoir_id, all_results, all_strategies, results, ret, error,
             outcomes, built, log, results_before, ncalls, is_cancelled>>

stVars == <<st_pc, st_active, st_F, st_X, st_out>>

gaVars == <<ga_pc, ga_params, ga_prob, ga_alg, ga_gen, ga_pop, ga_clipped, ga_off,
           ga_out, ga_df>>

rdVars == <<rd_pc, rd_active, rd_params, rd_out>>

wkVars == <<th_running, th_task, th_params, wk_pc, wk_args, wk_df, wk_i,
            wk_results, wk_failures, signals, started_with, cancel_asked,
            stopped_at, last_ret, ntasks>>

vars == <<optVars, stVars, gaVars, rdVars, wkVars>>

-----------------------------------------------------------------------------
(* Bounds of the model *)

MaxReservoirs == 3      \* most entries of data['model_results']
MaxCalls == 2           \* optimize calls made on one manager
MaxCells == 6           \* most entries (rows x columns) of an objective matrix
MaxGen == 2             \* most generations of one search
MaxPartitions == 4      \* largest reference_points given

-----------------------------------------------------------------------------
(* Values *)

NoneVal == [kind |-> "None"]

CanonicalObjs == <<"flood", "power", "supply", "ecology">>

SeqRange(s) == {s[k] : k \in 1..Len(s)}

\* the members of s that are in S, in the order of s
Restrict(s, S) ==
    LET G[k \in 0..Len(s)] ==
            IF k = 0 THEN << >>
            ELSE IF s[k] \in S THEN Append(G[k - 1], s[k]) ELSE G[k - 1]
    IN G[Len(s)]

\* objectives dicts: the schedule tab's four keys with some flags, and {}
FlagSets == {{}, {"power"}, {"flood", "power", "supply", "ecology"}}

DictOf(flags) == [i \in 1..Len(CanonicalObjs) |->
                    <<CanonicalObjs[i], CanonicalObjs[i] \in flags>>]

\* objectives dicts with a key _evaluate does not know
UnknownDicts == {<< <<"flood", TRUE>>, <<"navigation", TRUE>> >>}

ObjectiveDicts == {<< >>} \cup {DictOf(fl) : fl \in FlagSets} \cup UnknownDicts

\* the active-objectives lists tried, in and out of the canonical order
ActiveLists ==
    {<<"flood">>, <<"power">>, <<"supply">>, <<"ecology">>,
     <<"flood", "power">>, <<"power", "flood">>, <<"supply", "flood">>,
     <<"ecology", "supply">>,
     <<"supply", "power", "flood">>, <<"flood", "supply", "ecology">>,
     <<"flood", "power", "supply", "ecology">>}

\* params: ordinary bounds, equal bounds, degenerate bounds (Q_min > Q_max)
ParamSets == {[Q_min |-> q[1], Q_max |-> q[2], population_size |-> n] :
                q \in {<<0, 2>>, <<2, 1>>}, n \in {2}}

\* the shapes of `data`
DataShapes ==
    {[kind |-> "None"],                    \* None
     [kind |-> "list"],                    \* a non-empty list: truthy, not a dict
     [kind |-> "dict", mr |-> "absent"],   \* {} : falsy
     [kind |-> "dict", mr |-> "nokey"],    \* non-empty dict without 'model_results'
     [kind |-> "dict", mr |-> "None"]}     \* {'model_results': None, ...}
    \cup {[kind |-> "dict", mr |-> "map", n |-> n] : n \in 0..MaxReservoirs}


-----------------------------------------------------------------------------
(* Python semantics of the context test of optimize *)

\* bool(data)
Truthy(d) ==
    CASE d.kind = "None"  -> FALSE
      [] d.kind = "list"  -> TRUE
      [] d.kind = "dict"  -> d.mr # "absent"

IsDict(d) == d.kind = "dict"

HasModelResults(d) == IsDict(d) /\ d.mr \in {"None", "map"}

\* len(data['model_results']): len(None) is a TypeError
LenModelResults(d) ==
    IF d.mr = "None" THEN [err |-> "TypeError", count |-> 0]
                     ELSE [err |-> "none", count |-> d.n]

-----------------------------------------------------------------------------
(* scheduleLAYER/strategy.py: numbers *)

\* Objective values are floats; the model keeps the finite ones exact, as
\* fractions n/d with d > 0, and writes the others with d = 0: n/0 is +inf for
\* n > 0, -inf for n < 0 and nan for n = 0, which is what dividing by 0.0 gives.
Rat(n, d) == [n |-> n, d |-> d]

Sign(x) == IF x < 0 THEN -1 ELSE IF x > 0 THEN 1 ELSE 0

RatNorm(r) == IF r.d < 0 THEN Rat(-r.n, -r.d) ELSE r

IsNaN(r) == r.n = 0 /\ r.d = 0

IsFinite(r) == r.d # 0

\* inf + inf = inf, inf - inf = nan, anything + nan = nan
RatAdd(a, b) ==
    IF a.d = 0 /\ b.d = 0
    THEN IF Sign(a.n) = Sign(b.n) THEN Rat(Sign(a.n), 0) ELSE Rat(0, 0)
    ELSE Rat(a.n * b.d + b.n * a.d, a.d * b.d)

\* inf * 0 = nan
RatMul(a, b) == Rat(a.n * b.n, a.d * b.d)

\* 1/b, the sign kept in the numerator: 1/0.0 = inf, 1/inf = 0
Recip(b) == RatNorm(Rat(b.d, b.n))

\* x/0.0 is inf, -inf or nan by the sign of x: numpy warns and does not raise
RatDiv(a, b) == RatMul(a, Recip(b))

\* a < b: False whenever a or b is nan
RatLess(a, b) ==
    IF IsNaN(a) \/ IsNaN(b) THEN FALSE
    ELSE IF a.d = 0 /\ b.d = 0 THEN Sign(a.n) < Sign(b.n)
    ELSE a.n * b.d < b.n * a.d

\* a == 0: False for nan
RatIsZero(a) == a.n = 0 /\ a.d # 0

\* a matrix is a sequence of rows; numpy indexes rows and columns from 0
NRows(M) == Len(M)

Column(M, j) == [i \in 1..Len(M) |-> M[i][j + 1]]

\* M[indices]: the rows of M at the given 0-based indices, in that order
TakeRows(M, indices) == [k \in 1..Len(indices) |-> M[indices[k] + 1]]

\* active_objs.index(name): 0-based position of the first occurrence
ObjIndex(active, name) ==
    CHOOSE j \in 0..(Len(active) - 1) :
        /\ active[j + 1] = name
        /\ \A k \in 0..(j - 1) : active[k + 1] # name

\* np.argmin(v): 0-based index of the first smallest entry of a non-empty
\* vector; of the first nan when v holds one
ArgMin(v) ==
    IF \E k \in 1..Len(v) : IsNaN(v[k])
    THEN CHOOSE i \in 0..(Len(v) - 1) :
            IsNaN(v[i + 1]) /\ \A k \in 0..(i - 1) : ~IsNaN(v[k + 1])
    ELSE CHOOSE i \in 0..(Len(v) - 1) :
            /\ \A k \in 0..(Len(v) - 1) : ~RatLess(v[k + 1], v[i + 1])
            /\ \A k \in 0..(i - 1) : RatLess(v[i + 1], v[k + 1])

\* np.max(v) of a non-empty vector; nan when v holds one
VecMax(v) ==
    IF \E k \in 1..Len(v) : IsNaN(v[k]) THEN Rat(0, 0)
    ELSE LET i == CHOOSE i \in 1..Len(v) : \A k \in 1..Len(v) : ~RatLess(v[i], v[k])
         IN v[i]

RECURSIVE RatSum(_)
RatSum(v) == IF v = << >> THEN Rat(0, 1) ELSE RatAdd(Head(v), RatSum(Tail(v)))

-----------------------------------------------------------------------------
(* get_pareto_front: front 0 of the fast non-dominated sort *)

\* an objective vector whose values are all finite
IsFiniteRow(a) == \A k \in 1..Len(a) : IsFinite(a[k])

\* The sort's domination relation between two objective vectors (minimization):
\* 1 when a dominates b, -1 when b dominates a, 0 otherwise.  A vector with a
\* non-finite value is dominated by every vector that is all finite.
DominationRel(a, b) ==
    LET smaller == \E k \in 1..Len(a) : RatLess(a[k], b[k])
        larger  == \E k \in 1..Len(a) : RatLess(b[k], a[k])
        fin_a   == IsFiniteRow(a)
        fin_b   == IsFiniteRow(b)
    IN IF fin_a /\ ~fin_b THEN 1
       ELSE IF fin_b /\ ~fin_a THEN -1
       ELSE IF smaller /\ ~larger THEN 1
       ELSE IF larger /\ ~smaller THEN -1
       ELSE 0

\* is_dominating[i]: the rows i dominates, in ascending order of index
IsDominating(F, i) ==
    LET G[j \in 0..NRows(F)] ==
            IF j = 0 THEN << >>
            ELSE IF j - 1 # i /\ DominationRel(F[i + 1], F[j]) = 1
                 THEN Append(G[j - 1], j - 1) ELSE G[j - 1]
    IN G[NRows(F)]

\* n_dominated[i]: the number of rows that dominate row i
NDominated(F) ==
    [i \in 0..(NRows(F) - 1) |->
        Cardinality({j \in 0..(NRows(F) - 1) : j # i /\ DominationRel(F[j + 1], F[i + 1]) = 1})]

\* the first front: the rows no row dominates, in ascending order of index
FirstFront(F) ==
    LET nd == NDominated(F)
        G[j \in 0..NRows(F)] ==
            IF j = 0 THEN << >>
            ELSE IF nd[j - 1] = 0 THEN Append(G[j - 1], j - 1) ELSE G[j - 1]
    IN G[NRows(F)]

\* for i in current_front: for j in is_dominating[i]: the rows visited, in order
RECURSIVE Visited(_, _)
Visited(F, front) ==
    IF front = << >> THEN << >>
    ELSE IsDominating(F, Head(front)) \o Visited(F, Tail(front))

\* n_dominated[j] -= 1; if n_dominated[j] == 0: next_front.append(j)
RECURSIVE Peel(_, _, _)
Peel(visited, nd, acc) ==
    IF visited = << >> THEN [nd |-> nd, front |-> acc]
    ELSE LET j   == Head(visited)
             nd2 == [nd EXCEPT ![j] = @ - 1]
         IN Peel(Tail(visited), nd2, IF nd2[j] = 0 THEN Append(acc, j) ELSE acc)

\* while n_ranked < n: build the next front from the current one
RECURSIVE MoreFronts(_, _, _, _)
MoreFronts(F, current, nd, n_ranked) ==
    IF n_ranked >= NRows(F) THEN << >>
    ELSE LET p == Peel(Visited(F, current), nd, << >>)
         IN <<p.front>> \o MoreFronts(F, p.front, p.nd, n_ranked + Len(p.front))

\* fast_non_dominated_sort(F): the fronts, each a list of 0-based row indices
fast_non_dominated_sort(F) ==
    IF NRows(F) = 0 THEN << >>
    ELSE LET first == FirstFront(F)
         IN <<first>> \o MoreFronts(F, first, NDominated(F), Len(first))

\* a slip: the last front is returned instead of the first
get_pareto_front_LastFront(F) ==
    LET fronts == fast_non_dominated_sort(F)
    IN IF fronts = << >> THEN [err |-> "IndexError", indices |-> << >>]
       ELSE [err |-> "none", indices |-> fronts[Len(fronts)]]

\* get_pareto_front(F): fronts[0]; IndexError when the sort returns no front
get_pareto_front(F) ==
    LET fronts == fast_non_dominated_sort(F)
    IN IF fronts = << >> THEN [err |-> "IndexError", indices |-> << >>]
       ELSE [err |-> "none", indices |-> fronts[1]]

-----------------------------------------------------------------------------
(* recommend_strategies *)

\* a slip: solution_id is the 0-based index
Recommendation_ZeroBased(type, idx, pareto_X, pareto_F) ==
    [strategy_type      |-> type,
     solution_id        |-> idx,
     decision_variables |-> pareto_X[idx + 1],
     objective_values   |-> pareto_F[idx + 1]]

\* one entry of the recommendations: "solution_id": idx + 1,
\* "decision_variables": pareto_X[idx].tolist(), "objective_values":
\* pareto_F[idx].tolist()
Recommendation(type, idx, pareto_X, pareto_F) ==
    [strategy_type      |-> type,
     solution_id        |-> idx + 1,
     decision_variables |-> pareto_X[idx + 1],
     objective_values   |-> pareto_F[idx + 1]]

InList(active, name) == \E k \in 1..Len(active) : active[k] = name

\* a slip: the objective's column is taken to be the first one
PriorityColumn_First(active, name) == 0

\* flood_idx = active_objs.index("flood"), and likewise for the other objectives
PriorityColumn(active, name) == ObjIndex(active, name)

\* if "<name>" in active_objs: ... recommendations.append({...})
PriorityPick(type, name, pareto_X, pareto_F, active) ==
    IF InList(active, name)
    THEN <<Recommendation(type,
                          ArgMin(Column(pareto_F, PriorityColumn(active, name))),
                          pareto_X, pareto_F)>>
    ELSE << >>

\* a slip: np.max(pareto_F) without axis=0, the largest entry of the whole front
ColumnMaxima_Global(pareto_F) ==
    LET rowmax == [i \in 1..Len(pareto_F) |-> VecMax(pareto_F[i])]
    IN [j \in 1..Len(pareto_F[1]) |-> VecMax(rowmax)]

\* max_values = np.max(pareto_F, axis=0)
ColumnMaxima(pareto_F) ==
    [j \in 1..Len(pareto_F[1]) |-> VecMax(Column(pareto_F, j - 1))]

\* max_values = np.where(max_values == 0, 1.0, max_values)
ReplaceZero(max_values) ==
    [j \in 1..Len(max_values) |->
        IF RatIsZero(max_values[j]) THEN Rat(1, 1) ELSE max_values[j]]

\* weighted_sum = np.sum((pareto_F / max_values) * weights, axis=1)
WeightedSum(pareto_F, active) ==
    LET max_values == ReplaceZero(ColumnMaxima(pareto_F))
        weight     == Rat(1, Len(active))
    IN [i \in 1..Len(pareto_F) |->
          RatSum([j \in 1..Len(active) |->
                    RatMul(RatDiv(pareto_F[i][j], max_values[j]), weight)])]

\* if len(active_objs) > 1 and len(pareto_F) > 0:
OffersBalanced(active, pareto_F) == Len(active) > 1 /\ Len(pareto_F) > 0

BalancedPick(pareto_X, pareto_F, active) ==
    IF OffersBalanced(active, pareto_F)
    THEN <<Recommendation("balanced_strategy",
                          ArgMin(WeightedSum(pareto_F, active)),
                          pareto_X, pareto_F)>>
    ELSE << >>

\* a slip: the priority picks follow the order of the active-objectives list
RECURSIVE PicksInListOrder(_, _, _, _)
PicksInListOrder(rest, pareto_X, pareto_F, active) ==
    IF rest = << >> THEN << >>
    ELSE LET name == Head(rest)
             type == CASE name = "flood"   -> "flood_control_priority"
                       [] name = "power"   -> "power_generation_priority"
                       [] name = "supply"  -> "water_supply_priority"
                       [] name = "ecology" -> "ecology_priority"
         IN PriorityPick(type, name, pareto_X, pareto_F, active)
            \o PicksInListOrder(Tail(rest), pareto_X, pareto_F, active)

PriorityPicks_ListOrder(pareto_X, pareto_F, active) ==
    PicksInListOrder(active, pareto_X, pareto_F, active)

\* the four `if "<name>" in active_objs` blocks, in the order of the code
PriorityPicks(pareto_X, pareto_F, active) ==
    PriorityPick("flood_control_priority", "flood", pareto_X, pareto_F, active)
    \o PriorityPick("power_generation_priority", "power", pareto_X, pareto_F, active)
    \o PriorityPick("water_supply_priority", "supply", pareto_X, pareto_F, active)
    \o PriorityPick("ecology_priority", "ecology", pareto_X, pareto_F, active)

recommend_strategies(pareto_X, pareto_F, active) ==
    PriorityPicks(pareto_X, pareto_F, active) \o BalancedPick(pareto_X, pareto_F, active)

-----------------------------------------------------------------------------
(* build_reservoir_strategy *)

\* a slip: the values are paired with the names in the order flood, power,
\* supply, ecology instead of the order of active_objs
ObjectiveDict_CanonicalNames(active, f) ==
    LET names == Restrict(CanonicalObjs, {active[i] : i \in 1..Len(active)})
    IN [i \in 1..Len(f) |-> <<names[i], f[i]>>]

\* dict(zip(active_objs, f)): the pairs (name, value), as far as the shorter goes
ObjectiveDict(active, f) ==
    [i \in 1..(IF Len(active) < Len(f) THEN Len(active) ELSE Len(f)) |->
        <<active[i], f[i]>>]

ParetoSolution(i, x, f, active) ==
    [solution_id |-> i + 1, decision_variables |-> x, objective_values |-> f,
     objective_dict |-> ObjectiveDict(active, f)]

\* a slip: the recommendations are picked from the whole population instead of
\* the front
build_reservoir_strategy_RecommendFromAll(X, F, rid, active) ==
    LET pf == get_pareto_front(F) IN
    IF pf.err # "none" THEN [err |-> pf.err]
    ELSE LET pareto_X == TakeRows(X, pf.indices)
             pareto_F == TakeRows(F, pf.indices)
         IN [err |-> "none",
             reservoir_id |-> rid,
             pareto_indices |-> pf.indices,
             pareto_solutions_count |-> Len(pf.indices),
             total_solutions |-> Len(X),
             objectives |-> active,
             pareto_solutions |->
                 [k \in 1..Len(pf.indices) |-> ParetoSolution(k - 1, pareto_X[k], pareto_F[k], active)],
             recommended_strategies |-> recommend_strategies(X, F, active)]

build_reservoir_strategy(X, F, rid, active) ==
    LET pf == get_pareto_front(F) IN
    IF pf.err # "none" THEN [err |-> pf.err]
    ELSE LET pareto_X == TakeRows(X, pf.indices)
             pareto_F == TakeRows(F, pf.indices)
         IN [err |-> "none",
             reservoir_id |-> rid,
             pareto_indices |-> pf.indices,
             pareto_solutions_count |-> Len(pf.indices),
             total_solutions |-> Len(X),
             objectives |-> active,
             pareto_solutions |->
                 [k \in 1..Len(pf.indices) |-> ParetoSolution(k - 1, pareto_X[k], pareto_F[k], active)],
             recommended_strategies |-> recommend_strategies(pareto_X, pareto_F, active)]

-----------------------------------------------------------------------------
(* ScheduleManager.optimize *)

\* a slip: the enabled flag is not tested
ActiveObjs_AllKeys(objs) == [i \in 1..Len(objs) |-> objs[i][1]]

\* active_objs = [k for k, enabled in objectives.items() if enabled]
ActiveObjs(objs) ==
    LET F[i \in 0..Len(objs)] ==
            IF i = 0 THEN << >>
            ELSE IF objs[i][2] THEN Append(F[i-1], objs[i][1]) ELSE F[i-1]
    IN F[Len(objs)]

\* reservoir_count = 1; if data and isinstance(data, dict) and
\* 'model_results' in data: reservoir_count = len(data['model_results'])
CountsModelResults(d) ==
    Truthy(d) /\ IsDict(d) /\ HasModelResults(d)

ReservoirCount(d) ==
    IF CountsModelResults(d)
    THEN LenModelResults(d)
    ELSE [err |-> "none", count |-> 1]

\* a slip: the lower bound is left at the default 0.0 instead of Q_min
ProblemBounds_DefaultLower(p) == [xl |-> 0, xu |-> p.Q_max]

\* xl, xu handed to the problem: super().__init__(..., xl=Q_min, xu=Q_max)
ProblemBounds(p) == [xl |-> p.Q_min, xu |-> p.Q_max]

\* What minimize(problem, algorithm, ...) can give back to optimize.  The search
\* is a library call: it returns a result with a population ("pop"), a result
\* without a usable population ("nopop": res is None, res.pop is None, or F or
\* X is None), or it raises.  Bounds with xl > xu are outside the library's
\* contract: it may reject them or run on them.
\* The first thing a run does with its sampled population is evaluate it, and
\* _evaluate raises ValueError at a name that is none of the four it knows, so
\* with such a name no run gives a population.
HasUnknown(active) ==
    \E i \in 1..Len(active) : active[i] \notin SeqRange(CanonicalObjs)

MinimizeOutcomes(b, active) ==
    IF HasUnknown(active)
    THEN IF b.xl > b.xu THEN {"nopop", "raise"} ELSE {"raise"}
    ELSE IF b.xl > b.xu THEN {"pop", "nopop", "raise"} ELSE {"pop", "nopop"}

\* the exceptions that can leave minimize(): the library's own on bounds it
\* rejects, ValueError from _evaluate
RaisedErrors(b, active) ==
    (IF b.xl > b.xu THEN {"LibraryError"} ELSE {})
    \cup (IF HasUnknown(active) THEN {"ValueError"} ELSE {})

\* if res is not None and res.pop is not None: ... if F is not None and X is not None
Usable(o) == o = "pop"

\* df = pd.DataFrame(F, columns=active_objs); df['reservoir_id'] = reservoir_id;
\* df['time_step'] = range(len(df))
ResultFrame(rid, active, n) ==
    [columns |-> active \o <<"reservoir_id", "time_step">>,
     rows    |-> [k \in 1..n |-> [reservoir_id |-> rid, time_step |-> k - 1]]]

\* F = res.pop.get("F") of the run seeded with `seed` on c objectives.  What a
\* run finds is a function of its seed and its problem; the populations tried
\* are a chain (every individual dominates the next one: a front of one) and a
\* tie (all individuals equal: a front of n), alternating with seed + c
FinalF(seed, n, c) ==
    [r \in 1..n |->
        [k \in 1..c |-> IF (seed + c) % 2 = 0 THEN Rat(r, 1) ELSE Rat(0, 1)]]

\* X = res.pop.get("X")
FinalX(n) == [r \in 1..n |-> <<r>>]

\* strategy_info = build_reservoir_strategy(X, F, reservoir_id, active_objs,
\* params, horizon)
StrategyInfo(rid, active, n) ==
    build_reservoir_strategy(FinalX(n), FinalF(rid, n, Len(active)), rid, active)

\* a slip: a run without a population ends the call
LoopContinues_StopOnFailure(o) == o = "pop"

\* the for loop goes on to the next reservoir after a run unless the run raised
LoopContinues(o) == o # "raise"

\* a slip: a result is built only when every reservoir succeeded
HasResults_AllSucceeded(frames) == frames # << >> /\ Len(frames) = reservoir_count

\* if all_results:
HasResults(frames) == frames # << >>

\* pd.concat(all_results, ignore_index=True)
RECURSIVE ConcatRows(_)
ConcatRows(frames) ==
    IF frames = << >> THEN << >>
    ELSE Head(frames).rows \o ConcatRows(Tail(frames))

\* sum(len(s["pareto_solutions"]) for s in all_strategies)
RECURSIVE TotalParetoSolutions(_)
TotalParetoSolutions(strategies) ==
    IF strategies = << >> THEN 0
    ELSE Len(Head(strategies).pareto_solutions) + TotalParetoSolutions(Tail(strategies))

\* f"{res1_id}-{res2_id}"
PairName(res1_id, res2_id) == <<res1_id, "-", res2_id>>

\* the notes appended from the pair of positions (i, j) on: for i, strategy1
\* in enumerate(all_strategies): for j, strategy2 in
\* enumerate(all_strategies[i + 1:], i + 1)
RECURSIVE PairNotes(_, _, _)
PairNotes(strategies, i, j) ==
    IF i > Len(strategies) THEN << >>
    ELSE IF j > Len(strategies) THEN PairNotes(strategies, i + 1, i + 2)
    ELSE <<[reservoir_pair |-> PairName(strategies[i].reservoir_id,
                                        strategies[j].reservoir_id)]>>
         \o PairNotes(strategies, i, j + 1)

analyze_cross_reservoir_coordination(strategies) ==
    IF Len(strategies) <= 1 THEN [message |-> "single_reservoir"]
    ELSE [coordination_opportunities |-> PairNotes(strategies, 1, 2),
          potential_conflicts |-> << >>,
          recommended_coordination_strategies |-> << >>]

\* one entry per strategy in each of the three lists
generate_implementation_guidance(strategies) ==
    [operational_recommendations |->
        [k \in 1..Len(strategies) |-> strategies[k].reservoir_id],
     monitoring_requirements |->
        [k \in 1..Len(strategies) |-> strategies[k].reservoir_id],
     adjustment_criteria |->
        [k \in 1..Len(strategies) |-> strategies[k].reservoir_id]]

\* a slip: the summary counts every solution of the populations
StrategyReport_CountsPopulation(strategies, count, active, p) ==
    [total_reservoirs       |-> count,
     active_objectives      |-> active,
     total_pareto_solutions |-> Len(ConcatRows(
         [k \in 1..Len(strategies) |->
             [rows |-> [i \in 1..strategies[k].total_solutions |-> i]]])),
     reservoir_strategies   |-> strategies,
     cross_reservoir_analysis |-> analyze_cross_reservoir_coordination(strategies),
     implementation_guidance  |-> generate_implementation_guidance(strategies)]

\* build_comprehensive_strategy_report; the summary's copy of params is left out
StrategyReport(strategies, count, active, p) ==
    [total_reservoirs       |-> count,
     active_objectives      |-> active,
     total_pareto_solutions |-> TotalParetoSolutions(strategies),
     reservoir_strategies   |-> strategies,
     cross_reservoir_analysis |-> analyze_cross_reservoir_coordination(strategies),
     implementation_guidance  |-> generate_implementation_guidance(strategies)]

\* combined_df with attrs['schedule_strategy'] set
CombinedTable(frames, strategies, count, active, p) ==
    [kind     |-> "table",
     columns  |-> Head(frames).columns,
     rows     |-> ConcatRows(frames),
     schedule_strategy |-> StrategyReport(strategies, count, active, p)]

\* The start of a call: steps 1 to 3 of optimize
Call(d, objs, p) ==
    /\ pc \in {"idle", "returned", "raised"}
    /\ ncalls < MaxCalls
    /\ ncalls' = ncalls + 1
    /\ data' = d
    /\ objectives' = objs
    /\ params' = p
    /\ results_before' = results
    /\ active_objs' = ActiveObjs(objs)
    /\ outcomes' = << >>
    /\ built' = << >>
    /\ all_results' = << >>
    /\ all_strategies' = << >>
    /\ reservoir_id' = 1
    /\ is_cancelled' = FALSE
    /\ UNCHANGED results
    /\ UNCHANGED <<stVars, gaVars, rdVars, wkVars>>
    /\ IF ActiveObjs(objs) = << >>
       THEN /\ log' = <<[msg |-> "skip_no_objective"]>>
            /\ ret' = NoneVal
            /\ error' = "none"
            /\ pc' = "returned"
            /\ reservoir_count' = 0
       ELSE LET rc == ReservoirCount(d) IN
            IF rc.err # "none"
            THEN /\ log' = << >>
                 /\ ret' = NoneVal
                 /\ error' = rc.err
                 /\ pc' = "raised"
                 /\ reservoir_count' = 1
            ELSE /\ log' = IF CountsModelResults(d)
                           THEN <<[msg |-> "detected", n |-> rc.count]>>
                           ELSE << >>
                 /\ ret' = NoneVal
                 /\ error' = "none"
                 /\ pc' = "loop"
                 /\ reservoir_count' = rc.count

\* One iteration of the per-reservoir loop: step 4 of optimize
RunReservoir(o) ==
    /\ pc = "loop"
    /\ reservoir_id <= reservoir_count
    /\ o \in MinimizeOutcomes(ProblemBounds(params), active_objs)
    /\ built' = Append(built, reservoir_id)
    /\ outcomes' = Append(outcomes, o)
    /\ IF LoopContinues(o)
       THEN /\ pc' = "loop"
            /\ reservoir_id' = reservoir_id + 1
            /\ error' = "none"
            /\ IF Usable(o)
               THEN /\ all_results' = Append(all_results,
                          ResultFrame(reservoir_id, active_objs, params.population_size))
                    /\ all_strategies' = Append(all_strategies,
                          StrategyInfo(reservoir_id, active_objs, params.population_size))
                    /\ log' = log \o <<[msg |-> "start", id |-> reservoir_id],
                                       [msg |-> "done", id |-> reservoir_id]>>
               ELSE /\ UNCHANGED <<all_results, all_strategies>>
                    /\ log' = log \o <<[msg |-> "start", id |-> reservoir_id],
                                       [msg |-> "failed", id |-> reservoir_id]>>
       ELSE /\ pc' = "raised"
            /\ error' \in RaisedErrors(ProblemBounds(params), active_objs)
            /\ log' = Append(log, [msg |-> "start", id |-> reservoir_id])
            /\ UNCHANGED <<reservoir_id, all_results, all_strategies>>
    /\ UNCHANGED <<data, objectives, params, active_objs, reservoir_count,
                   results, ret, results_before, ncalls, is_cancelled>>
    /\ UNCHANGED <<stVars, gaVars, rdVars, wkVars>>

\* After the loop: step 5 of optimize
Merge ==
    /\ pc = "loop"
    /\ reservoir_id > reservoir_count
    /\ pc' = "returned"
    /\ IF HasResults(all_results)
       THEN LET t == CombinedTable(all_results, all_strategies, reservoir_count,
                                   active_objs, params) IN
            /\ results' = t
            /\ ret' = t
            /\ log' = log \o <<[msg |-> "completed", n |-> Len(all_results)],
                               [msg |-> "report_generated"]>>
       ELSE /\ ret' = NoneVal
            /\ log' = Append(log, [msg |-> "all_failed"])
            /\ UNCHANGED results
    /\ UNCHANGED <<data, objectives, params, active_objs, reservoir_count,
                   reservoir_id, all_results, all_strategies, error, outcomes,
                   built, results_before, ncalls, is_cancelled>>
    /\ UNCHANGED <<stVars, gaVars, rdVars, wkVars>>

\* ComputeWorker.cancel_task, called from the window while the worker is inside
\* optimize: it sets the worker's flag, which run_schedule_optimization reads
\* before and after its call of optimize and optimize never reads
CancelTask ==
    /\ pc = "loop"
    /\ ~is_cancelled
    /\ is_cancelled' = TRUE
    /\ UNCHANGED <<pc, data, objectives, params, active_objs, reservoir_count,
                   reservoir_id, all_results, all_strategies, results, ret, error,
                   outcomes, built, log, results_before, ncalls>>
    /\ UNCHANGED <<stVars, gaVars, rdVars, wkVars>>

OptInit ==
    /\ pc = "idle"
    /\ data = NoneVal
    /\ objectives = << >>
    /\ params = [Q_min |-> 0, Q_max |-> 2, population_size |-> 2]
    /\ active_objs = << >>
    /\ reservoir_count = 0
    /\ reservoir_id = 1
    /\ all_results = << >>
    /\ all_strategies = << >>
    /\ results = NoneVal
    /\ ret = NoneVal
    /\ error = "none"
    /\ outcomes = << >>
    /\ built = << >>
    /\ log = << >>
    /\ results_before = NoneVal
    /\ ncalls = 0
    /\ is_cancelled = FALSE

-----------------------------------------------------------------------------
(* mainLAYER/compute_thread.py: ComputeThread and its ComputeWorker *)

\* the variables of optimize other than the worker's flag
callVars == <<pc, data, objectives, params, active_objs, reservoir_count,
              reservoir_id, all_results, all_strategies, results, ret, error,
              outcomes, built, log, results_before, ncalls>>

\* the signals of ComputeWorker
Progress(n)   == [sig |-> "progress_updated", arg |-> n]
ErrorOccurred(type) == [sig |-> "error_occurred", arg |-> type]
TaskFinished  == [sig |-> "task_finished", arg |-> NoneVal]
ScheduleCompleted(schedule_results) ==
    [sig |-> "schedule_completed", arg |-> schedule_results]
ModelCompleted(reservoir_results, failures) ==
    [sig |-> "model_completed",
     arg |-> [reservoir_results |-> reservoir_results, failures |-> failures]]

CompletedSignals == {"schedule_completed", "model_completed"}

\* the requests the window makes: the model computation on a non-empty dict of
\* reservoir inputs (main.py returns before the request on an empty one), the
\* optimization on the schedule tab's objectives
ModelRequests ==
    {[selected_model |-> m, ids |-> 1..n] :
        m \in {"SCS-CN", "unsupported"}, n \in 1..MaxReservoirs}

ScheduleRequests ==
    {[objectives |-> DictOf(fl), params |-> p, n |-> 1] :
        fl \in FlagSets, p \in ParamSets}

\* What schedule_manager.optimize(schedule_input, objectives, params) gives the
\* worker: None without an enabled objective or without a usable run, the
\* combined table of the runs, or the exception of a run
OptimizeReturns(a) ==
    LET active == ActiveObjs(a.objectives)
        outs   == MinimizeOutcomes(ProblemBounds(a.params), active)
        size   == a.params.population_size
    IN  IF active = << >> THEN {NoneVal}
        ELSE (IF "nopop" \in outs THEN {NoneVal} ELSE {})
             \cup (IF "pop" \in outs
                   THEN {CombinedTable(
                            [k \in 1..a.n |-> ResultFrame(k, active, size)],
                            [k \in 1..a.n |-> StrategyInfo(k, active, size)],
                            a.n, active, a.params)}
                   ELSE {})

OptimizeRaises(a) ==
    /\ ActiveObjs(a.objectives) # << >>
    /\ "raise" \in MinimizeOutcomes(ProblemBounds(a.params),
                                    ActiveObjs(a.objectives))

\* if results_df is not None and not results_df.empty
HasTable(df) == df # NoneVal /\ df.rows # << >>

\* the columns results_df[[...]] selects for 'objectives'
ObjectivesColumns == CanonicalObjs \o <<"reservoir_id">>

\* results_df[cols].copy(): KeyError unless the table has every column of cols
SelectColumns(df, cols) ==
    IF SeqRange(cols) \subseteq SeqRange(df.columns)
    THEN [ok |-> TRUE, df |-> [columns |-> cols, rows |-> df.rows]]
    ELSE [ok |-> FALSE]

\* schedule_results of lines 160-165
ScheduleResults(df) ==
    [optimization_results |-> df,
     objectives           |-> SelectColumns(df, ObjectivesColumns).df,
     pareto_front         |-> df,
     schedule_strategy    |-> df.schedule_strategy]

\* model_manager.run_model on one reservoir: a DataFrame, None (no model
\* selected, or the model reported no success), or an exception of the model
RunModelOutcomes(selected_model) ==
    IF selected_model = "SCS-CN" THEN {"df", "None", "exc"} ELSE {"None"}

\* failures[reservoir_id] = {'message': ...}: the model's or the default
\* message after a None result, the exception's after an exception
Failure(id, o) ==
    [id |-> id, message |-> IF o = "exc" THEN "exception" ELSE "failed"]

\* the keys of failures
FailedIds(failures) == {f.id : f \in failures}

\* progress = 10 + int((i / total_reservoirs) * 80)
LoopProgress(i, total) == 10 + (i * 80) \div total

\* a slip: the request does not look at the thread
CanStart_Always(running) == TRUE

\* if self.isRunning(): ... return False
CanStart(running) == ~running

\* a slip: an exception of one reservoir's model ends the loop
ModelLoopContinues_StopOnException(o) == o # "exc"

\* the except of lines 93-99 records the failure and the loop goes on
ModelLoopContinues(o) == TRUE

\* a slip: the early return of a cancellation check leaves the try statement
\* without its finally
FinallyRuns_NotAfterReturn(at) == at = 0

\* finally: self.task_finished.emit() runs on every way out of the try
FinallyRuns(at) == TRUE

WkIdle ==
    /\ th_running = FALSE
    /\ th_task = NoneVal
    /\ th_params = NoneVal
    /\ wk_pc = "idle"
    /\ wk_args = NoneVal
    /\ wk_df = NoneVal
    /\ wk_i = 0
    /\ wk_results = {}
    /\ wk_failures = {}
    /\ signals = << >>
    /\ started_with = NoneVal
    /\ cancel_asked = FALSE
    /\ stopped_at = 0
    /\ last_ret = NoneVal
    /\ ntasks = 0

\* ComputeThread.run_model_computation / run_schedule_optimization (220-242).
\* QThread.start() starts the thread unless it is running already.
Request(task, prm) ==
    /\ th_running \/ ntasks < MaxCalls
    /\ IF ~CanStart(th_running)
       THEN /\ last_ret' = FALSE
            /\ UNCHANGED <<th_running, th_task, th_params, wk_pc, signals,
                           started_with, cancel_asked, stopped_at, ntasks>>
       ELSE /\ th_task' = task
            /\ th_params' = prm
            /\ last_ret' = TRUE
            /\ IF ~th_running
               THEN /\ th_running' = TRUE
                    /\ wk_pc' = "run"
                    /\ signals' = << >>
                    /\ started_with' = [task |-> task, params |-> prm]
                    /\ cancel_asked' = FALSE
                    /\ stopped_at' = 0
                    /\ ntasks' = ntasks + 1
               ELSE UNCHANGED <<th_running, wk_pc, signals, started_with,
                                cancel_asked, stopped_at, ntasks>>
    /\ UNCHANGED <<wk_args, wk_df, wk_i, wk_results, wk_failures, is_cancelled>>
    /\ UNCHANGED <<callVars, stVars, gaVars, rdVars>>

\* main.py 290: compute_thread.run_model_computation(...)
RequestModel(prm) ==
    /\ prm \in ModelRequests
    /\ Request("model", prm)

\* main.py 333: compute_thread.run_schedule_optimization(...)
RequestSchedule(prm) ==
    /\ prm \in ScheduleRequests
    /\ Request("schedule", prm)

\* ComputeThread.cancel_current_task (244-246), which the window calls while
\* is_busy() (main.py 480): worker.cancel_task() sets the flag
CancelCurrentTask ==
    /\ th_running
    /\ is_cancelled' = TRUE
    /\ cancel_asked' =
          (cancel_asked
           \/ \A k \in 1..Len(signals) : signals[k].sig \notin CompletedSignals)
    /\ UNCHANGED <<th_running, th_task, th_params, wk_pc, wk_args, wk_df, wk_i,
                   wk_results, wk_failures, signals, started_with, stopped_at,
                   last_ret, ntasks>>
    /\ UNCHANGED <<callVars, stVars, gaVars, rdVars>>

\* the frame of a step of the worker thread
WorkerFrame ==
    /\ UNCHANGED <<th_running, th_task, th_params, started_with, cancel_asked,
                   last_ret, ntasks>>
    /\ UNCHANGED <<callVars, stVars, gaVars, rdVars>>

\* ComputeThread.run (213-218): the dispatch on _current_task
Run ==
    /\ wk_pc = "run"
    /\ wk_args' = th_params
    /\ wk_pc' = IF th_task = "model" THEN "m54" ELSE "s129"
    \* the locals of the call are not bound yet
    /\ wk_df' = NoneVal
    /\ wk_i' = 0
    /\ wk_results' = {}
    /\ wk_failures' = {}
    /\ UNCHANGED <<signals, stopped_at, is_cancelled>>
    /\ WorkerFrame

\* the return of a cancellation check, into the finally clause
StopAt(line) ==
    /\ stopped_at' = line
    /\ wk_pc' = IF FinallyRuns(line) THEN "finally" ELSE "done"
    /\ UNCHANGED signals

\* ---- ComputeWorker.run_schedule_optimization ----

\* lines 129-130
S_Reset ==
    /\ wk_pc = "s129"
    /\ is_cancelled' = FALSE
    /\ signals' = Append(signals, Progress(0))
    /\ wk_pc' = "s132"
    /\ UNCHANGED <<wk_args, wk_df, wk_i, wk_results, wk_failures, stopped_at>>
    /\ WorkerFrame

\* lines 132-135
S_Check1 ==
    /\ wk_pc = "s132"
    /\ IF is_cancelled THEN StopAt(132)
       ELSE /\ signals' = Append(signals, Progress(20))
            /\ wk_pc' = "s138"
            /\ UNCHANGED stopped_at
    /\ UNCHANGED <<wk_args, wk_df, wk_i, wk_results, wk_failures, is_cancelled>>
    /\ WorkerFrame

\* line 138: the call of optimize returns
S_Optimize ==
    /\ wk_pc = "s138"
    /\ wk_df' \in OptimizeReturns(wk_args)
    /\ wk_pc' = "s140"
    /\ UNCHANGED <<wk_args, wk_i, wk_results, wk_failures, signals, stopped_at,
                   is_cancelled>>
    /\ WorkerFrame

\* line 138: the call of optimize raises
S_OptimizeRaises ==
    /\ wk_pc = "s138"
    /\ OptimizeRaises(wk_args)
    /\ wk_pc' = "except"
    /\ UNCHANGED <<wk_args, wk_df, wk_i, wk_results, wk_failures, signals,
                   stopped_at, is_cancelled>>
    /\ WorkerFrame

\* lines 140-143
S_Check2 ==
    /\ wk_pc = "s140"
    /\ IF is_cancelled THEN StopAt(140)
       ELSE /\ signals' = Append(signals, Progress(80))
            /\ wk_pc' = "s145"
            /\ UNCHANGED stopped_at
    /\ UNCHANGED <<wk_args, wk_df, wk_i, wk_results, wk_failures, is_cancelled>>
    /\ WorkerFrame

\* lines 145-162 and 170-171
S_Build ==
    /\ wk_pc = "s145"
    /\ IF HasTable(wk_df)
       THEN /\ wk_pc' = IF SelectColumns(wk_df, ObjectivesColumns).ok
                        THEN "s164" ELSE "except"
            /\ UNCHANGED signals
       ELSE /\ signals' = Append(signals, ErrorOccurred("schedule_optimization"))
            /\ wk_pc' = "finally"
    /\ UNCHANGED <<wk_args, wk_df, wk_i, wk_results, wk_failures, stopped_at,
                   is_cancelled>>
    /\ WorkerFrame

\* lines 164-168
S_Emit ==
    /\ wk_pc = "s164"
    /\ signals' = signals \o <<Progress(95),
                               ScheduleCompleted(ScheduleResults(wk_df)),
                               Progress(100)>>
    /\ wk_pc' = "finally"
    /\ UNCHANGED <<wk_args, wk_df, wk_i, wk_results, wk_failures, stopped_at,
                   is_cancelled>>
    /\ WorkerFrame

\* lines 173-177: except Exception
S_Except ==
    /\ wk_pc = "except"
    /\ signals' = Append(signals, ErrorOccurred("schedule_optimization"))
    /\ wk_pc' = "finally"
    /\ UNCHANGED <<wk_args, wk_df, wk_i, wk_results, wk_failures, stopped_at,
                   is_cancelled>>
    /\ WorkerFrame

\* ---- ComputeWorker.run_model_computation ----

\* lines 54-55
M_Reset ==
    /\ wk_pc = "m54"
    /\ is_cancelled' = FALSE
    /\ signals' = Append(signals, Progress(0))
    /\ wk_pc' = "m58"
    /\ UNCHANGED <<wk_args, wk_df, wk_i, wk_results, wk_failures, stopped_at>>
    /\ WorkerFrame

\* lines 58-59: select_model raises nothing
M_Select ==
    /\ wk_pc = "m58"
    /\ signals' = Append(signals, Progress(10))
    /\ wk_pc' = "m61"
    /\ UNCHANGED <<wk_args, wk_df, wk_i, wk_results, wk_failures, stopped_at,
                   is_cancelled>>
    /\ WorkerFrame

\* lines 61-67
M_Check1 ==
    /\ wk_pc = "m61"
    /\ IF is_cancelled
       THEN /\ StopAt(61)
            /\ UNCHANGED <<wk_i, wk_results, wk_failures>>
       ELSE /\ wk_results' = {}
            /\ wk_failures' = {}
            /\ wk_i' = 0
            /\ wk_pc' = "m69"
            /\ UNCHANGED <<signals, stopped_at>>
    /\ UNCHANGED <<wk_args, wk_df, is_cancelled>>
    /\ WorkerFrame

\* lines 69-74: the head of the loop over reservoir_input_data.items(), which
\* come in the order of the ids
M_LoopHead ==
    /\ wk_pc = "m69"
    /\ IF wk_i = Cardinality(wk_args.ids)
       THEN /\ wk_pc' = "m101"
            /\ UNCHANGED <<signals, stopped_at>>
       ELSE IF is_cancelled THEN StopAt(70)
            ELSE /\ signals' = Append(signals,
                        Progress(LoopProgress(wk_i, Cardinality(wk_args.ids))))
                 /\ wk_pc' = "m77"
                 /\ UNCHANGED stopped_at
    /\ UNCHANGED <<wk_args, wk_df, wk_i, wk_results, wk_failures, is_cancelled>>
    /\ WorkerFrame

\* lines 76-99: run_model on reservoir wk_i + 1
M_RunModel(o) ==
    /\ wk_pc = "m77"
    /\ o \in RunModelOutcomes(wk_args.selected_model)
    /\ IF o = "df"
       THEN /\ wk_results' = wk_results \cup {wk_i + 1}
            /\ UNCHANGED wk_failures
       ELSE /\ wk_failures' = wk_failures \cup {Failure(wk_i + 1, o)}
            /\ UNCHANGED wk_results
    /\ wk_i' = wk_i + 1
    /\ wk_pc' = IF ModelLoopContinues(o) THEN "m69" ELSE "m101"
    /\ UNCHANGED <<wk_args, wk_df, signals, stopped_at, is_cancelled>>
    /\ WorkerFrame

\* lines 101-102
M_Check3 ==
    /\ wk_pc = "m101"
    /\ IF is_cancelled THEN StopAt(101)
       ELSE /\ wk_pc' = "m104"
            /\ UNCHANGED <<signals, stopped_at>>
    /\ UNCHANGED <<wk_args, wk_df, wk_i, wk_results, wk_failures, is_cancelled>>
    /\ WorkerFrame

\* lines 104-108
M_Emit ==
    /\ wk_pc = "m104"
    /\ signals' = signals \o <<Progress(95),
                               ModelCompleted(wk_results, wk_failures),
                               Progress(100)>>
    /\ wk_pc' = "finally"
    /\ UNCHANGED <<wk_args, wk_df, wk_i, wk_results, wk_failures, stopped_at,
                   is_cancelled>>
    /\ WorkerFrame

\* ---- both ----

\* finally: self.task_finished.emit() (116, 182)
Finally ==
    /\ wk_pc = "finally"
    /\ signals' = Append(signals, TaskFinished)
    /\ wk_pc' = "done"
    /\ UNCHANGED <<wk_args, wk_df, wk_i, wk_results, wk_failures, stopped_at,
                   is_cancelled>>
    /\ WorkerFrame

\* run() has returned: the thread finishes and isRunning() is False again
ThreadExit ==
    /\ wk_pc = "done"
    /\ wk_pc' = "idle"
    /\ th_running' = FALSE
    /\ UNCHANGED <<th_task, th_params, wk_args, wk_df, wk_i, wk_results,
                   wk_failures, signals, started_with, cancel_asked, stopped_at,
                   last_ret, ntasks, is_cancelled>>
    /\ UNCHANGED <<callVars, stVars, gaVars, rdVars>>

WorkerStep ==
    \/ Run
    \/ S_Reset \/ S_Check1 \/ S_Optimize \/ S_OptimizeRaises \/ S_Check2
    \/ S_Build \/ S_Emit \/ S_Except
    \/ M_Reset \/ M_Select \/ M_Check1 \/ M_LoopHead
    \/ (\E o \in {"df", "None", "exc"} : M_RunModel(o))
    \/ M_Check3 \/ M_Emit
    \/ Finally \/ ThreadExit

WkNext ==
    \/ \E prm \in ModelRequests : RequestModel(prm)
    \/ \E prm \in ScheduleRequests : RequestSchedule(prm)
    \/ CancelCurrentTask
    \/ WorkerStep

-----------------------------------------------------------------------------
(* _ReservoirSchedulingProblem *)

\* params.get(key, default)
Get(p, key, default) == IF key \in DOMAIN p THEN p[key] ELSE default

\* _ReservoirSchedulingProblem.__init__
Problem(n_var, active, p) ==
    [n_var     |-> n_var,
     active    |-> active,
     Q_min     |-> p.Q_min,
     Q_max     |-> p.Q_max,
     Q_allowed |-> Get(p, "Q_allowed", Rat(p.Q_max, 1)),
     Q_target  |-> Get(p, "Q_target", Rat(p.Q_min + p.Q_max, 2)),
     Q_eco     |-> Get(p, "Q_eco", Rat(p.Q_min, 1)),
     Head      |-> Get(p, "head", Rat(50, 1)),
     xl        |-> ProblemBounds(p).xl,
     xu        |-> ProblemBounds(p).xu]

\* a decision vector, its entries as fractions
AsRat(x) == [i \in 1..Len(x) |-> Rat(x[i], 1)]

\* np.maximum(a, 0.0)
RatPos(a) == IF RatLess(a, Rat(0, 1)) THEN Rat(0, 1) ELSE a

RatSub(a, b) == RatAdd(a, RatMul(Rat(-1, 1), b))

\* one objective of one row of X, as in the branches of _evaluate
ObjectiveValue(prob, obj, x) ==
    CASE obj = "flood" ->
            RatDiv(VecMax(AsRat(x)), prob.Q_allowed)
      [] obj = "power" ->
            RatMul(Rat(-1, 1), RatSum([i \in 1..Len(x) |-> RatMul(Rat(x[i], 1), prob.Head)]))
      [] obj = "supply" ->
            RatDiv(RatSum([i \in 1..Len(x) |-> RatPos(RatSub(prob.Q_target, Rat(x[i], 1)))]),
                   RatMul(prob.Q_target, Rat(prob.n_var, 1)))
      [] obj = "ecology" ->
            Rat(Cardinality({i \in 1..Len(x) : RatLess(Rat(x[i], 1), prob.Q_eco)}), prob.n_var)

\* _evaluate: F[:, i] for each i, obj in enumerate(active_objs)
Evaluate(prob, X) ==
    [r \in 1..Len(X) |->
        [i \in 1..Len(prob.active) |-> ObjectiveValue(prob, prob.active[i], X[r])]]

-----------------------------------------------------------------------------
(* The reference directions handed to the algorithm *)

\* the compositions of `total` into `parts` non-negative integer parts
RECURSIVE Compositions(_, _)
Compositions(total, parts) ==
    IF parts = 1 THEN {<<total>>}
    ELSE UNION {{<<k>> \o c : c \in Compositions(total - k, parts - 1)} : k \in 0..total}

\* generate(num_objectives, num_partitions): every composition of
\* num_partitions into num_objectives parts, each part divided by num_partitions
get_reference_directions(n_dim, n_partitions) ==
    IF n_dim < 1 \/ n_partitions < 1
    THEN [err |-> "InvalidParameterError", points |-> {}]
    ELSE [err |-> "none",
          points |-> {[i \in 1..n_dim |-> Rat(c[i], n_partitions)] :
                        c \in Compositions(n_partitions, n_dim)}]

\* a slip: the two arguments change places
RefDirs_SwappedArguments(active, p) ==
    get_reference_directions(Get(p, "reference_points", 12), Len(active))

\* n_ref = int(params.get("reference_points", 12)); ref_dirs =
\* get_reference_directions("das-dennis", len(active_objs), n_partitions=n_ref)
RefDirs(active, p) ==
    get_reference_directions(Len(active), Get(p, "reference_points", 12))

\* the partition counts tried, and a params dict without the key
RefParams ==
    {[reference_points |-> n] : n \in 0..MaxPartitions} \cup {[horizon |-> 2]}

RdIdle ==
    /\ rd_pc = "off"
    /\ rd_active = << >>
    /\ rd_params = NoneVal
    /\ rd_out = NoneVal

RdInputs ==
    /\ rd_pc = "input"
    /\ rd_active \in ActiveLists
    /\ rd_params \in RefParams
    /\ rd_out = NoneVal

ReferenceDirections ==
    /\ rd_pc = "input"
    /\ rd_pc' = "made"
    /\ rd_out' = RefDirs(rd_active, rd_params)
    /\ UNCHANGED <<rd_active, rd_params>>
    /\ UNCHANGED <<optVars, stVars, gaVars, wkVars>>

-----------------------------------------------------------------------------
(* The evolutionary search run by minimize(problem, algorithm, ("n_gen", n_gen)) *)

\* the runs tried: bounds apart, bounds equal, bounds degenerate
GaParams ==
    {[Q_min |-> q[1], Q_max |-> q[2], population_size |-> n, iterations |-> g,
      horizon |-> 2] :
        q \in {<<1, 2>>, <<1, 1>>, <<2, 1>>}, n \in {1, 2}, g \in 1..MaxGen}

GaActive == {<<"flood", "power">>, <<"power", "flood">>, <<"ecology">>}

\* clip a gene back into [xl, xu]
Clip(v, xl, xu) == IF v < xl THEN xl ELSE IF v > xu THEN xu ELSE v

ClipRows(rows, xl, xu) ==
    [r \in 1..Len(rows) |-> [i \in 1..Len(rows[r]) |-> Clip(rows[r][i], xl, xu)]]

\* the genes crossover and mutation can produce before clipping
RawGenes(prob) == (prob.xl - 1)..(prob.xu + 1)

\* the 0-based indices that survive: whole fronts in rank order while they fit,
\* then `chosen` from the front that does not fit
RECURSIVE WholeFronts(_, _)
WholeFronts(fronts, room) ==
    IF fronts = << >> \/ Len(Head(fronts)) > room THEN << >>
    ELSE Head(fronts) \o WholeFronts(Tail(fronts), room - Len(Head(fronts)))

RECURSIVE SplitFront(_, _)
SplitFront(fronts, room) ==
    IF fronts = << >> THEN << >>
    ELSE IF Len(Head(fronts)) > room THEN Head(fronts)
    ELSE SplitFront(Tail(fronts), room - Len(Head(fronts)))

\* a slip: the population size is read from the iterations key
Algorithm_PopSizeFromBudget(p) ==
    [pop_size |-> Get(p, "iterations", 100),
     n_gen    |-> Get(p, "iterations", 100)]

\* a slip: the generation budget is read from the population_size key
Algorithm_BudgetFromPopSize(p) ==
    [pop_size |-> Get(p, "population_size", 100),
     n_gen    |-> Get(p, "population_size", 100)]

\* pop_size = int(params.get("population_size", 100)); n_gen =
\* int(params.get("iterations", 100)); NSGA3(pop_size=pop_size, ...) run with
\* the termination ("n_gen", n_gen)
Algorithm(p) ==
    [pop_size |-> Get(p, "population_size", 100),
     n_gen    |-> Get(p, "iterations", 100)]

\* df = pd.DataFrame(F, columns=active_objs); df['reservoir_id'] = reservoir_id;
\* df['time_step'] = range(len(df)), with the objective values of each row
DataFrame(F, rid, active) ==
    [columns |-> ResultFrame(rid, active, Len(F)).columns,
     rows    |-> [k \in 1..Len(F) |->
                    [values       |-> F[k],
                     reservoir_id |-> ResultFrame(rid, active, Len(F)).rows[k].reservoir_id,
                     time_step    |-> ResultFrame(rid, active, Len(F)).rows[k].time_step]]]

GaIdle ==
    /\ ga_pc = "off"
    /\ ga_params = NoneVal
    /\ ga_prob = NoneVal
    /\ ga_alg = NoneVal
    /\ ga_gen = 0
    /\ ga_pop = << >>
    /\ ga_clipped = FALSE
    /\ ga_off = << >>
    /\ ga_out = NoneVal
    /\ ga_df = NoneVal

\* a run is set up: the problem of one reservoir and the generation budget
GaInputs ==
    /\ ga_pc = "start"
    /\ ga_params \in GaParams
    /\ \E a \in GaActive : ga_prob = Problem(Get(ga_params, "horizon", 24), a, ga_params)
    /\ ga_alg = Algorithm(ga_params)
    /\ ga_gen = 0
    /\ ga_pop = << >>
    /\ ga_clipped = FALSE
    /\ ga_off = << >>
    /\ ga_out = NoneVal
    /\ ga_df = NoneVal

\* Initialize: population_size vectors sampled within [xl, xu]^n_var; with
\* xl > xu there is nothing to sample and the run yields no population
Initialize ==
    /\ ga_pc = "start"
    /\ IF ga_prob.xl > ga_prob.xu
       THEN /\ ga_pc' = "failed"
            /\ UNCHANGED ga_pop
       ELSE /\ ga_pc' = "vary"
            /\ ga_pop' \in [1..ga_alg.pop_size -> [1..ga_prob.n_var -> ga_prob.xl..ga_prob.xu]]
    /\ UNCHANGED <<ga_params, ga_prob, ga_alg, ga_gen, ga_clipped, ga_off, ga_out, ga_df>>
    /\ UNCHANGED <<optVars, stVars, rdVars, wkVars>>

\* Vary: population_size offspring by crossover and mutation, every gene
\* clipped back into [xl, xu]
Vary ==
    /\ ga_pc = "vary"
    /\ ga_gen < ga_alg.n_gen
    /\ \E raw \in [1..ga_alg.pop_size -> [1..ga_prob.n_var -> RawGenes(ga_prob)]] :
          /\ ga_off' = ClipRows(raw, ga_prob.xl, ga_prob.xu)
          /\ ga_clipped' = (ga_clipped \/ raw # ClipRows(raw, ga_prob.xl, ga_prob.xu))
    /\ ga_pc' = "survive"
    /\ UNCHANGED <<ga_params, ga_prob, ga_alg, ga_gen, ga_pop, ga_out, ga_df>>
    /\ UNCHANGED <<optVars, stVars, rdVars, wkVars>>

\* NonDominatedSort and Niche: the parents and offspring are ranked and the next
\* population is filled front by front; which members of the front that does
\* not fit are kept is decided by the niching, here any choice of the right size
Survive ==
    /\ ga_pc = "survive"
    /\ LET pool   == ga_pop \o ga_off
           fronts == fast_non_dominated_sort(Evaluate(ga_prob, pool))
           whole  == WholeFronts(fronts, ga_alg.pop_size)
           split  == SplitFront(fronts, ga_alg.pop_size)
       IN \E chosen \in SUBSET SeqRange(split) :
             /\ Cardinality(chosen) = ga_alg.pop_size - Len(whole)
             /\ ga_pop' = TakeRows(pool, whole \o Restrict(split, chosen))
    /\ ga_gen' = ga_gen + 1
    /\ ga_off' = << >>
    /\ ga_pc' = "vary"
    /\ UNCHANGED <<ga_params, ga_prob, ga_alg, ga_clipped, ga_out, ga_df>>
    /\ UNCHANGED <<optVars, stVars, rdVars, wkVars>>

\* Terminate: the final population comes back to optimize, which builds the
\* reservoir's strategy from it
Terminate ==
    /\ ga_pc = "vary"
    /\ ga_gen = ga_alg.n_gen
    /\ ga_pc' = "done"
    /\ ga_df' = DataFrame(Evaluate(ga_prob, ga_pop), 1, ga_prob.active)
    /\ ga_out' = build_reservoir_strategy(ga_pop, Evaluate(ga_prob, ga_pop), 1, ga_prob.active)
    /\ UNCHANGED <<ga_params, ga_prob, ga_alg, ga_gen, ga_pop, ga_clipped, ga_off>>
    /\ UNCHANGED <<optVars, stVars, rdVars, wkVars>>


-----------------------------------------------------------------------------
(* build_reservoir_strategy applied to a final population *)

\* objective values tried
ObjValues == {Rat(v, 1) : v \in {-2, -1, 0, 1}}

\* the objective matrices with c columns and at most MaxCells entries
Matrices(c) ==
    UNION {[1..n -> [1..c -> ObjValues]] : n \in 0..(MaxCells \div c)}

\* a decision matrix with n rows, each row different
DecisionRows(n) == [i \in 1..n |-> <<i, 0>>]

StrategyIdle ==
    /\ st_pc = "off"
    /\ st_active = << >>
    /\ st_F = << >>
    /\ st_X = << >>
    /\ st_out = NoneVal

StrategyInputs ==
    /\ st_pc = "input"
    /\ st_active \in ActiveLists
    /\ st_F \in Matrices(Len(st_active))
    /\ st_X = DecisionRows(Len(st_F))
    /\ st_out = NoneVal

\* strategy_info = build_reservoir_strategy(X, F, reservoir_id, active_objs, ...)
BuildStrategy ==
    /\ st_pc = "input"
    /\ st_pc' = "built"
    /\ st_out' = build_reservoir_strategy(st_X, st_F, 1, st_active)
    /\ UNCHANGED <<st_active, st_F, st_X>>
    /\ UNCHANGED <<optVars, gaVars, rdVars, wkVars>>

StrategyInit == OptInit /\ StrategyInputs /\ GaIdle /\ RdIdle /\ WkIdle

\* objective values tried, the non-finite ones among them: 0, -1, inf, -inf, nan
NonFiniteValues == {Rat(0, 1), Rat(-1, 1), Rat(1, 0), Rat(-1, 0), Rat(0, 0)}

NonFiniteLists ==
    {<<"flood", "power">>, <<"power", "flood">>, <<"supply", "power", "flood">>}

NonFiniteMatrices(c) ==
    UNION {[1..n -> [1..c -> NonFiniteValues]] : n \in 1..(MaxCells \div c)}

\* parameters that make _evaluate divide by zero
ZeroParams ==
    {[Q_min |-> 0, Q_max |-> 1, Q_allowed |-> Rat(0, 1)],
     [Q_min |-> 0, Q_max |-> 1, Q_target |-> Rat(0, 1)]}

\* a final population whose objective values are not all finite: any matrix
\* over NonFiniteValues, or what _evaluate computes under ZeroParams
NonFiniteInputs ==
    /\ st_pc = "input"
    /\ st_out = NoneVal
    /\ \/ /\ st_active \in NonFiniteLists
          /\ st_F \in NonFiniteMatrices(Len(st_active))
          /\ st_X = DecisionRows(Len(st_F))
       \/ /\ st_active = <<"flood", "supply">>
          /\ st_X \in [1..2 -> [1..1 -> 0..1]]
          /\ \E p \in ZeroParams : st_F = Evaluate(Problem(1, st_active, p), st_X)

StrategyNext == BuildStrategy

SpecStrategy == StrategyInit /\ [][StrategyNext]_vars

NonFiniteInit == OptInit /\ NonFiniteInputs /\ GaIdle /\ RdIdle /\ WkIdle

SpecNonFinite == NonFiniteInit /\ [][StrategyNext]_vars

GaInit == OptInit /\ StrategyIdle /\ GaInputs /\ RdIdle /\ WkIdle

GaNext == Initialize \/ Vary \/ Survive \/ Terminate

SpecSearch == GaInit /\ [][GaNext]_vars

RdInit == OptInit /\ StrategyIdle /\ GaIdle /\ RdInputs /\ WkIdle

RdNext == ReferenceDirections

SpecRefDirs == RdInit /\ [][RdNext]_vars

-----------------------------------------------------------------------------
(* The manager *)

Init == OptInit /\ StrategyIdle /\ GaIdle /\ RdIdle /\ WkIdle

Next ==
    \/ \E d \in DataShapes, objs \in ObjectiveDicts, p \in ParamSets : Call(d, objs, p)
    \/ \E o \in {"pop", "nopop", "raise"} : RunReservoir(o)
    \/ Merge
    \/ CancelTask

Spec == Init /\ [][Next]_vars

\* the compute thread: the window's requests and cancellations interleaved
\* with the steps of the worker
SpecWorker == Init /\ [][WkNext]_vars

-----------------------------------------------------------------------------
(* Properties of ScheduleManager.optimize *)

NoFlagEnabled(objs) == \A i \in 1..Len(objs) : ~objs[i][2]

StrategyIds(strategies) == [i \in 1..Len(strategies) |-> strategies[i].reservoir_id]

\* the reservoir ids, ascending, whose run gave a population
SuccessIds(outs) ==
    LET F[i \in 0..Len(outs)] ==
            IF i = 0 THEN << >>
            ELSE IF outs[i] = "pop" THEN Append(F[i-1], i) ELSE F[i-1]
    IN F[Len(outs)]

Ascending(n) == [i \in 1..n |-> i]

ContextErrors == {"TypeError"}

\* C1: a reservoir whose run returns no population is skipped and the loop
\* goes on: the reservoirs processed so far are 1, 2, ... in order, the
\* strategies collected are exactly those of the reservoirs that gave a
\* population, a call that returns has processed every id in 1..count and its
\* report holds one strategy per successful reservoir, and a call is only
\* left early by a run that raised, never by one that returned no population.
C1_FailureSkipped ==
    (pc # "idle" /\ active_objs # << >> /\ error \notin ContextErrors) =>
        /\ built = Ascending(Len(built))
        /\ Len(outcomes) = Len(built)
        /\ StrategyIds(all_strategies) = SuccessIds(outcomes)
        /\ Len(all_results) = Len(all_strategies)
        /\ (pc = "loop" => Len(built) = reservoir_id - 1)
        /\ (pc = "returned" => Len(built) = reservoir_count)
        /\ (pc = "returned" /\ ret # NoneVal =>
              StrategyIds(ret.schedule_strategy.reservoir_strategies) = SuccessIds(outcomes))
        /\ (pc = "raised" => outcomes # << >> /\ outcomes[Len(outcomes)] = "raise")

C1_Witness ==
    /\ pc = "returned"
    /\ reservoir_count = 3
    /\ outcomes = <<"nopop", "pop", "nopop">>
    /\ ret # NoneVal
    /\ StrategyIds(ret.schedule_strategy.reservoir_strategies) = <<2>>

\* C2: with degenerate bounds (Q_min > Q_max) and two reservoirs of which
\* reservoir 1 succeeds, optimize does not raise and returns a result whose
\* report holds exactly one reservoir strategy, that of reservoir 1.
C2_DegenerateBoundsSkipped ==
    (/\ pc \in {"returned", "raised"}
     /\ active_objs # << >>
     /\ params.Q_min > params.Q_max
     /\ reservoir_count = 2
     /\ outcomes # << >>
     /\ outcomes[1] = "pop") =>
        /\ pc = "returned"
        /\ ret # NoneVal
        /\ StrategyIds(ret.schedule_strategy.reservoir_strategies) = <<1>>

\* C3: with no objective enabled optimize returns None after the skip warning
\* and nothing is processed: no problem is built, no optimizer is run, and
\* self.results is what it was before the call.
C3_NoObjectiveSkips ==
    (pc # "idle" /\ NoFlagEnabled(objectives)) =>
        /\ pc = "returned"
        /\ ret = NoneVal
        /\ error = "none"
        /\ built = << >>
        /\ outcomes = << >>
        /\ log = <<[msg |-> "skip_no_objective"]>>
        /\ results = results_before

C3_Witness ==
    /\ pc = "returned"
    /\ objectives # << >>
    /\ NoFlagEnabled(objectives)
    /\ results # NoneVal
    /\ ret = NoneVal

\* C4: optimize returns None exactly when no objective is enabled or no
\* reservoir's run gave a population; when at least one did, it returns a
\* table with at least one row and the comprehensive report attached as
\* schedule_strategy.
C4_NoneIffNothingSucceeded ==
    pc = "returned" =>
        /\ (ret = NoneVal) <=>
              (NoFlagEnabled(objectives)
               \/ \A i \in 1..reservoir_count : outcomes[i] # "pop")
        /\ (~NoFlagEnabled(objectives) /\ \E i \in 1..reservoir_count : outcomes[i] = "pop") =>
              /\ ret.kind = "table"
              /\ Len(ret.rows) >= 1
              /\ ret.schedule_strategy =
                   StrategyReport(all_strategies, reservoir_count, active_objs, params)
              /\ ret.schedule_strategy.reservoir_strategies # << >>
              /\ results = ret

C4_Witness ==
    /\ pc = "returned"
    /\ ret # NoneVal
    /\ \E i \in 1..reservoir_count : outcomes[i] = "nopop"

\* C5: the reservoirs processed are 1..count in ascending order, count is the
\* number of entries of data['model_results'], count is 1 when the context is
\* None, not a mapping, without a model_results entry or with a model_results
\* entry that is None, and the shape of the context never makes optimize raise.
C5_CountFromContext ==
    (pc # "idle" /\ ~NoFlagEnabled(objectives)) =>
        /\ error \notin ContextErrors
        /\ built = Ascending(Len(built))
        /\ IF data.kind = "dict" /\ data.mr = "map"
           THEN reservoir_count = data.n
           ELSE reservoir_count = 1

\* C16: when an enabled objective name is none of flood, power, supply,
\* ecology, optimize ends by raising the configuration error (ValueError), no
\* reservoir's run has given a population, nothing has been accumulated and
\* self.results is what it was before the call.
C16_UnknownObjectiveRejected ==
    (pc # "idle" /\ HasUnknown(active_objs) /\ error \notin ContextErrors) =>
        /\ \A i \in 1..Len(outcomes) : outcomes[i] # "pop"
        /\ all_results = << >>
        /\ all_strategies = << >>
        /\ results = results_before
        /\ pc \in {"returned", "raised"} => (pc = "raised" /\ error = "ValueError")

\* C18: a cancellation requested while a run over several reservoirs is under
\* way is looked at once per reservoir: a reservoir's turn that begins after
\* the request builds no problem and starts no run.
C18_CancelStopsLoop ==
    [][is_cancelled => built' = built /\ outcomes' = outcomes]_vars

-----------------------------------------------------------------------------
(* Properties of the report *)

ReportBuilt == pc = "returned" /\ ret # NoneVal

Report == ret.schedule_strategy

\* the Pareto solutions of the report, as (strategy, solution) positions
ReportedSolutions ==
    {<<k, i>> \in (1..Len(Report.reservoir_strategies)) \X (1..MaxCells) :
        i <= Report.reservoir_strategies[k].pareto_solutions_count}

\* C21: in a report the strategies are those of the successful reservoirs in
\* ascending id order, total_pareto_solutions is the sum of their
\* pareto_solutions_count, each count is the length of the strategy's
\* pareto_solutions and lies in 1..total_solutions, and the summary carries the
\* run's reservoir count and active objectives.
C21_ReportConsistent ==
    ReportBuilt =>
        /\ StrategyIds(Report.reservoir_strategies) = SuccessIds(outcomes)
        /\ Report.total_pareto_solutions = Cardinality(ReportedSolutions)
        /\ \A k \in 1..Len(Report.reservoir_strategies) :
              LET s == Report.reservoir_strategies[k] IN
              /\ s.pareto_solutions_count = Len(s.pareto_solutions)
              /\ s.pareto_solutions_count >= 1
              /\ s.pareto_solutions_count <= s.total_solutions
        /\ Report.total_reservoirs = reservoir_count
        /\ Report.active_objectives = active_objs

C21_Witness ==
    /\ ReportBuilt
    /\ reservoir_count = 3
    /\ StrategyIds(Report.reservoir_strategies) = <<1, 2>>
    /\ Report.total_pareto_solutions = 3
    /\ Report.reservoir_strategies[1].total_solutions = 2

\* the ids of the report's strategies, in pairs (earlier, later)
ReportedPairs ==
    {<<Report.reservoir_strategies[i].reservoir_id,
       Report.reservoir_strategies[j].reservoir_id>> :
        i \in 1..Len(Report.reservoir_strategies),
        j \in 1..Len(Report.reservoir_strategies)} \ {<<a, b>> \in (1..(MaxReservoirs + 1)) \X (1..(MaxReservoirs + 1)) : a >= b}

\* C22: when a report is built for a run over more than one reservoir its
\* coordination analysis holds one note per pair of distinct reservoirs of the
\* report, earlier id first, no pair twice; the single-reservoir message is
\* there only for a reservoir count of 1.
C22_PairwiseNotes ==
    ReportBuilt =>
        LET analysis == Report.cross_reservoir_analysis IN
        IF reservoir_count > 1
        THEN /\ "coordination_opportunities" \in DOMAIN analysis
             /\ LET notes == analysis.coordination_opportunities IN
                /\ {notes[k].reservoir_pair : k \in 1..Len(notes)}
                      = {PairName(pr[1], pr[2]) : pr \in ReportedPairs}
                /\ Len(notes) = Cardinality(ReportedPairs)
        ELSE analysis = [message |-> "single_reservoir"]

\* the reservoirs of the run without a strategy in its outcome
Dropped == (1..reservoir_count) \ SeqRange(StrategyIds(all_strategies))

\* C23: when optimize returns or raises, every reservoir in 1..count that has
\* no strategy in the outcome has a log entry that names it and says it
\* failed.
C23_DroppedReservoirLogged ==
    (pc \in {"returned", "raised"} /\ error \notin ContextErrors) =>
        \A rid \in Dropped :
            \E k \in 1..Len(log) : log[k] = [msg |-> "failed", id |-> rid]

-----------------------------------------------------------------------------
(* Properties of get_pareto_front and recommend_strategies *)

Built == st_pc = "built" /\ st_out.err = "none"

\* the objective values st_F holds are whole numbers
Val(r) == r.n

\* a dominates b: a_i <= b_i for every objective, a_i < b_i for at least one
Dominates(a, b) ==
    /\ \A k \in 1..Len(a) : Val(a[k]) <= Val(b[k])
    /\ \E k \in 1..Len(a) : Val(a[k]) < Val(b[k])

RowIndices == 0..(Len(st_F) - 1)

FrontSet == {st_out.pareto_indices[k] : k \in 1..Len(st_out.pareto_indices)}

\* C7: get_pareto_front(F) returns exactly the rows of F no other row
\* dominates, each once: no two returned rows dominate one another, every row
\* not returned is dominated by a returned row, the result is non-empty when F
\* is, and build_reservoir_strategy takes pareto_X and pareto_F at those rows.
C7_ParetoFrontExact ==
    (st_pc = "built" /\ Len(st_F) > 0) =>
        /\ st_out.err = "none"
        /\ FrontSet = {i \in RowIndices : \A j \in RowIndices : ~Dominates(st_F[j + 1], st_F[i + 1])}
        /\ Cardinality(FrontSet) = Len(st_out.pareto_indices)
        /\ \A i, j \in FrontSet : ~Dominates(st_F[i + 1], st_F[j + 1])
        /\ \A i \in RowIndices \ FrontSet : \E j \in FrontSet : Dominates(st_F[j + 1], st_F[i + 1])
        /\ FrontSet # {}
        /\ \A k \in 1..Len(st_out.pareto_indices) :
              /\ st_out.pareto_solutions[k].objective_values = st_F[st_out.pareto_indices[k] + 1]
              /\ st_out.pareto_solutions[k].decision_variables = st_X[st_out.pareto_indices[k] + 1]

C7_Witness ==
    /\ Built
    /\ Len(st_F) = 3
    /\ Len(st_active) = 2
    /\ st_out.pareto_indices = <<0, 2>>

\* the members of the extracted front, as objective vectors
FrontRows == [k \in 1..Len(st_out.pareto_indices) |-> st_F[st_out.pareto_indices[k] + 1]]

RecsOfType(type) ==
    {k \in 1..Len(st_out.recommended_strategies) :
        st_out.recommended_strategies[k].strategy_type = type}

\* a recommendation is a member of the front: its solution_id names the member
IsFrontMember(rec) ==
    /\ rec.solution_id \in 1..Len(FrontRows)
    /\ rec.objective_values = FrontRows[rec.solution_id]

Abs(x) == IF x < 0 THEN -x ELSE x

Sgn(x) == IF x < 0 THEN -1 ELSE 1

\* the largest value of column j of the front, 0 replaced by 1
NormMax(j) ==
    LET m == CHOOSE m \in {Val(FrontRows[k][j]) : k \in 1..Len(FrontRows)} :
                 \A k \in 1..Len(FrontRows) : Val(FrontRows[k][j]) <= m
    IN IF m = 0 THEN 1 ELSE m

RECURSIVE ProdAbsMaxExcept(_, _)
ProdAbsMaxExcept(j, skip) ==
    IF j = 0 THEN 1
    ELSE (IF j = skip THEN 1 ELSE Abs(NormMax(j))) * ProdAbsMaxExcept(j - 1, skip)

\* sum over the objectives j of row[j] / NormMax(j), times the positive number
\* |NormMax(1)| * ... * |NormMax(n)|: the equal weights 1/n scale every row alike
RECURSIVE ScaledNormSum(_, _)
ScaledNormSum(row, j) ==
    IF j = 0 THEN 0
    ELSE Val(row[j]) * Sgn(NormMax(j)) * ProdAbsMaxExcept(Len(row), j)
         + ScaledNormSum(row, j - 1)

\* C8: with at least two active objectives the balanced recommendation is a
\* member of the Pareto front whose sum of objectives, each divided by its
\* column maximum over the front (0 replaced by 1), is <= that of every member
\* of the front, also when a column maximum is negative.
C8_BalancedOptimal ==
    (Built /\ Len(st_active) >= 2) =>
        /\ Cardinality(RecsOfType("balanced_strategy")) = 1
        /\ \A k \in RecsOfType("balanced_strategy") :
              LET rec == st_out.recommended_strategies[k] IN
              /\ IsFrontMember(rec)
              /\ \A m \in 1..Len(FrontRows) :
                    ScaledNormSum(rec.objective_values, Len(st_active))
                        <= ScaledNormSum(FrontRows[m], Len(st_active))

C8_Witness ==
    /\ Built
    /\ Len(st_active) = 2
    /\ Len(FrontRows) = 3
    /\ NormMax(2) < 0
    /\ \E k \in RecsOfType("balanced_strategy") :
          st_out.recommended_strategies[k].solution_id = 3

PriorityType(name) ==
    CASE name = "flood"   -> "flood_control_priority"
      [] name = "power"   -> "power_generation_priority"
      [] name = "supply"  -> "water_supply_priority"
      [] name = "ecology" -> "ecology_priority"

\* C9: for every active objective the priority recommendation is a member of
\* the Pareto front whose value in that objective's column is the minimum of
\* the column over the front, wherever the objective stands in the list.
C9_PriorityIsColumnMinimum ==
    Built =>
        \A j \in 1..Len(st_active) :
            /\ Cardinality(RecsOfType(PriorityType(st_active[j]))) = 1
            /\ \A k \in RecsOfType(PriorityType(st_active[j])) :
                  LET rec == st_out.recommended_strategies[k] IN
                  /\ IsFrontMember(rec)
                  /\ \A m \in 1..Len(FrontRows) :
                        Val(rec.objective_values[j]) <= Val(FrontRows[m][j])

C9_Witness ==
    /\ Built
    /\ st_active = <<"power", "flood">>
    /\ Len(FrontRows) = 3
    /\ \E k \in RecsOfType("flood_control_priority") :
          st_out.recommended_strategies[k].solution_id = 3
    /\ \E k \in RecsOfType("power_generation_priority") :
          st_out.recommended_strategies[k].solution_id = 1

\* the priority types of the active objectives in the order flood, power,
\* supply, ecology
CanonicalTypes(active) ==
    LET G[i \in 0..Len(CanonicalObjs)] ==
            IF i = 0 THEN << >>
            ELSE IF \E k \in 1..Len(active) : active[k] = CanonicalObjs[i]
                 THEN Append(G[i - 1], PriorityType(CanonicalObjs[i])) ELSE G[i - 1]
    IN G[Len(CanonicalObjs)]

RecTypes == [k \in 1..Len(st_out.recommended_strategies) |->
                st_out.recommended_strategies[k].strategy_type]

\* C10: the recommendations are one priority pick per active objective in the
\* order flood, power, supply, ecology, whatever the order of the list, then
\* the balanced pick, which is there exactly when two or more objectives are
\* active.
C10_CanonicalOrder ==
    Built =>
        RecTypes = CanonicalTypes(st_active)
                   \o (IF Len(st_active) >= 2 THEN <<"balanced_strategy">> ELSE << >>)

C10_Witness ==
    /\ Built
    /\ st_active = <<"supply", "power", "flood">>
    /\ RecTypes = <<"flood_control_priority", "power_generation_priority",
                    "water_supply_priority", "balanced_strategy">>

\* the Pareto solutions of the strategy whose solution_id is k
SolutionsWithId(k) ==
    {i \in 1..Len(st_out.pareto_solutions) : st_out.pareto_solutions[i].solution_id = k}

\* C24: every recommendation's solution_id is a k with
\* 1 <= k <= pareto_solutions_count, and its decision_variables and
\* objective_values are those of the one Pareto solution of the same strategy
\* whose solution_id is k.
C24_RecommendationNamesSolution ==
    Built =>
        \A r \in 1..Len(st_out.recommended_strategies) :
            LET rec == st_out.recommended_strategies[r] IN
            /\ rec.solution_id >= 1
            /\ rec.solution_id <= st_out.pareto_solutions_count
            /\ Cardinality(SolutionsWithId(rec.solution_id)) = 1
            /\ \A i \in SolutionsWithId(rec.solution_id) :
                  /\ st_out.pareto_solutions[i].decision_variables = rec.decision_variables
                  /\ st_out.pareto_solutions[i].objective_values = rec.objective_values

C24_Witness ==
    /\ Built
    /\ st_out.pareto_solutions_count = 3
    /\ Len(st_out.recommended_strategies) = 3
    /\ st_out.recommended_strategies[1].solution_id = 3
    /\ st_out.recommended_strategies[2].solution_id = 1
    /\ st_out.recommended_strategies[3].solution_id = 2

-----------------------------------------------------------------------------
(* Properties of the search *)

InBounds(x) == \A i \in 1..Len(x) : ga_prob.Q_min <= x[i] /\ x[i] <= ga_prob.Q_max

AllInBounds(rows) == \A r \in 1..Len(rows) : InBounds(rows[r])

\* C6: in every generation every component of every decision vector lies in
\* [Q_min, Q_max]: the population, the offspring after crossover, mutation and
\* clipping, and the vectors that come back (the final population's rows, the
\* Pareto solutions and the recommended strategies).
C6_BoundsInvariant ==
    /\ ga_pc \in {"vary", "survive", "done"} =>
          AllInBounds(ga_pop) /\ AllInBounds(ga_off)
    /\ ga_pc = "done" =>
          /\ ga_out.err = "none"
          /\ \A k \in 1..Len(ga_out.pareto_solutions) :
                InBounds(ga_out.pareto_solutions[k].decision_variables)
          /\ \A k \in 1..Len(ga_out.recommended_strategies) :
                InBounds(ga_out.recommended_strategies[k].decision_variables)

C6_Witness ==
    /\ ga_pc = "done"
    /\ ga_gen = 2
    /\ ga_clipped
    /\ ga_prob.Q_min < ga_prob.Q_max
    /\ Len(ga_pop) = 2
    /\ ga_pop[1] # ga_pop[2]
    /\ Len(ga_out.pareto_solutions) = 2
    /\ Len(ga_out.recommended_strategies) = 3


\* the population_size and iterations the caller asked for
AskedPopSize == Get(ga_params, "population_size", 100)

AskedIterations == Get(ga_params, "iterations", 100)

StepsLeft ==
    CASE ga_pc = "start"   -> 2 * AskedIterations + 2
      [] ga_pc = "vary"    -> 2 * (AskedIterations - ga_gen) + 1
      [] ga_pc = "survive" -> 2 * (AskedIterations - ga_gen)
      [] OTHER             -> 0

\* the selection of a generation can be made: the front that does not fit has
\* enough members to fill the population
NicheCanFill ==
    LET fronts == fast_non_dominated_sort(Evaluate(ga_prob, ga_pop \o ga_off))
    IN \E chosen \in SUBSET SeqRange(SplitFront(fronts, ga_alg.pop_size)) :
          Cardinality(chosen) = ga_alg.pop_size - Len(WholeFronts(fronts, ga_alg.pop_size))

-----------------------------------------------------------------------------
(* Properties of the reference directions *)

\* C(n, k) by Pascal's rule
RECURSIVE Binomial(_, _)
Binomial(n, k) ==
    IF k = 0 \/ k = n THEN 1
    ELSE IF k < 0 \/ k > n THEN 0
    ELSE Binomial(n - 1, k - 1) + Binomial(n - 1, k)

RECURSIVE SumOfNumerators(_)
SumOfNumerators(pt) == IF pt = << >> THEN 0 ELSE Head(pt).n + SumOfNumerators(Tail(pt))

AskedPartitions == Get(rd_params, "reference_points", 12)

\* C13: for m >= 1 active objectives and partition count p >= 1 the reference
\* directions are exactly C(p + m - 1, m - 1) distinct points of m coordinates,
\* every coordinate is k/p for a whole number k in 0..p, the k of a point sum
\* to p (so its coordinates sum to 1), and for m = 1 the only point is [1.0].
C13_SimplexPoints ==
    (rd_pc = "made" /\ Len(rd_active) >= 1 /\ AskedPartitions >= 1) =>
        LET m == Len(rd_active)
            p == AskedPartitions
        IN /\ rd_out.err = "none"
           /\ Cardinality(rd_out.points) = Binomial(p + m - 1, m - 1)
           /\ \A pt \in rd_out.points :
                 /\ Len(pt) = m
                 /\ \A i \in 1..m : pt[i].d = p /\ pt[i].n \in 0..p
                 /\ SumOfNumerators(pt) = p
           /\ (m = 1 => \A pt \in rd_out.points : pt[1].n = pt[1].d)

C13_Witness ==
    /\ rd_pc = "made"
    /\ Len(rd_active) = 3
    /\ AskedPartitions = 4
    /\ Cardinality(rd_out.points) = 15
    /\ <<Rat(1, 4), Rat(0, 4), Rat(3, 4)>> \in rd_out.points


-----------------------------------------------------------------------------
(* Properties of a population with non-finite objective values *)

FiniteRows == {i \in 0..(Len(st_F) - 1) : IsFiniteRow(st_F[i + 1])}

PickedIndices == {st_out.pareto_indices[k] : k \in 1..Len(st_out.pareto_indices)}

-----------------------------------------------------------------------------
(* Properties of one run: from evaluation to the recommendations *)

\* the value of objective `name` for decision vector x, from the formulas
ValueOf(name, x) == ObjectiveValue(ga_prob, name, x)

\* the objective vector of x in the order of the run's active_objs
VectorOf(x) == [i \in 1..Len(ga_prob.active) |-> ValueOf(ga_prob.active[i], x)]

\* C15: in one run every objective vector has one entry per active objective
\* and entry i is the value of the i-th name of the run's active_objs: in the
\* table (whose first columns are those names in that order), in each Pareto
\* solution's objective_values and objective_dict, and in the recommendations,
\* where the priority pick of a name is the Pareto solution with the smallest
\* value of that name's objective.
C15_OrderConsistent ==
    ga_pc = "done" =>
        LET active == ga_prob.active IN
        /\ ga_out.objectives = active
        /\ ga_df.columns = active \o <<"reservoir_id", "time_step">>
        /\ \A r \in 1..Len(ga_df.rows) : ga_df.rows[r].values = VectorOf(ga_pop[r])
        /\ \A k \in 1..Len(ga_out.pareto_solutions) :
              LET sol == ga_out.pareto_solutions[k] IN
              /\ sol.objective_values = VectorOf(sol.decision_variables)
              /\ Len(sol.objective_dict) = Len(active)
              /\ \A i \in 1..Len(active) :
                    sol.objective_dict[i] = <<active[i], ValueOf(active[i], sol.decision_variables)>>
        /\ \A k \in 1..Len(ga_out.recommended_strategies) :
              LET rec == ga_out.recommended_strategies[k] IN
              /\ rec.objective_values = VectorOf(rec.decision_variables)
              /\ \A j \in 1..Len(active) :
                    rec.strategy_type = PriorityType(active[j]) =>
                        \A m \in 1..Len(ga_out.pareto_solutions) :
                            ~RatLess(ValueOf(active[j], ga_out.pareto_solutions[m].decision_variables),
                                     ValueOf(active[j], rec.decision_variables))

C15_Witness ==
    /\ ga_pc = "done"
    /\ ga_prob.active = <<"power", "flood">>
    /\ Len(ga_out.pareto_solutions) = 2
    /\ ga_out.pareto_solutions[1].objective_dict[1][1] = "power"
    /\ \E k \in 1..Len(ga_out.recommended_strategies) :
          /\ ga_out.recommended_strategies[k].strategy_type = "flood_control_priority"
          /\ ga_out.recommended_strategies[k].solution_id = 2

\* the rows of the reservoir's table no row of the final population dominates
NonDominatedRows ==
    {k \in 1..Len(ga_df.rows) :
        \A j \in 1..Len(ga_pop) :
            DominationRel(Evaluate(ga_prob, ga_pop)[j], ga_df.rows[k].values) # 1}

\* C20: every row of a reservoir's table is a non-dominated member of the
\* reservoir's final population; the columns are the active objectives, then
\* reservoir_id and time_step; every row carries the reservoir's id, and
\* time_step numbers the rows 0, 1, 2, ...
C20_RowsAreParetoFront ==
    ga_pc = "done" =>
        /\ ga_df.columns = ga_prob.active \o <<"reservoir_id", "time_step">>
        /\ \A k \in 1..Len(ga_df.rows) :
              /\ ga_df.rows[k].reservoir_id = ga_out.reservoir_id
              /\ ga_df.rows[k].time_step = k - 1
              /\ Len(ga_df.rows[k].values) = Len(ga_prob.active)
              /\ \E j \in 1..Len(ga_pop) :
                    ga_df.rows[k].values = Evaluate(ga_prob, ga_pop)[j]
        /\ NonDominatedRows = 1..Len(ga_df.rows)


-----------------------------------------------------------------------------
(* Properties of the environmental selection *)

\* how often the decision vector x stands in the sequence rows
Copies(x, rows) == Cardinality({k \in 1..Len(rows) : rows[k] = x})

\* the selection from pool to next admits the fronts in rank order and cuts
\* front 0 only when it has more than size members
AdmittedInRankOrder(pool, next, fronts, size) ==
    LET rank  == [i \in 1..Len(pool) |->
                    CHOOSE r \in 1..Len(fronts) : (i - 1) \in SeqRange(fronts[r])]
        had   == [i \in 1..Len(pool) |-> Copies(pool[i], pool)]
        kept  == [i \in 1..Len(pool) |-> Copies(pool[i], next)]
    IN /\ \A k \in 1..Len(next) : \E i \in 1..Len(pool) : next[k] = pool[i]
       /\ \A i \in 1..Len(pool) : kept[i] <= had[i]
       /\ \A i, j \in 1..Len(pool) :
             (rank[i] < rank[j] /\ kept[j] > 0) => kept[i] = had[i]
       /\ \A i \in 1..Len(pool) :
             (rank[i] = 1 /\ kept[i] < had[i]) => Len(fronts[1]) > size

\* C25: in every selection step the fronts of the pool of parents and offspring
\* are admitted in rank order: when an individual of some rank survives, every
\* individual of each lower rank survives, so only the last admitted front is
\* taken in part, and an individual of front 0 is discarded only when front 0
\* has more than population_size members.
C25_FrontsAdmittedInRankOrder ==
    [][(ga_pc = "survive" /\ ga_pc' = "vary") =>
          AdmittedInRankOrder(ga_pop \o ga_off, ga_pop',
                              fast_non_dominated_sort(Evaluate(ga_prob, ga_pop \o ga_off)),
                              AskedPopSize)]_vars

\* a selection has kept the one non-dominated individual and filled the
\* population from the next front
C25_Witness ==
    /\ ga_pc = "vary"
    /\ ga_gen = 1
    /\ AskedPopSize = 2
    /\ ga_prob.active = <<"flood", "power">>
    /\ ga_pop = << <<2, 2>>, <<1, 2>> >>

-----------------------------------------------------------------------------
(* Properties of the compute thread *)

\* the task started last has left its worker method
TaskOver == ntasks > 0 /\ wk_pc \in {"done", "idle"}

TaskKind == IF ntasks > 0 THEN started_with.task ELSE "none"

SignalsNamed(names) == {k \in 1..Len(signals) : signals[k].sig \in names}

ProgressAt(n) ==
    {k \in 1..Len(signals) :
        signals[k].sig = "progress_updated" /\ signals[k].arg = n}

\* C26: whatever non-empty set of objectives is enabled, a schedule task for
\* which no cancellation was asked and whose optimize call returned a non-empty
\* table emits schedule_completed with that table and its schedule_strategy
\* report, and emits no error_occurred.
C26_CompletedForEveryObjectiveSet ==
    (/\ TaskOver
     /\ TaskKind = "schedule"
     /\ ~cancel_asked
     /\ ActiveObjs(wk_args.objectives) # << >>
     /\ HasTable(wk_df))
    => /\ \E k \in SignalsNamed({"schedule_completed"}) :
              /\ signals[k].arg.optimization_results = wk_df
              /\ signals[k].arg.schedule_strategy = wk_df.schedule_strategy
       /\ SignalsNamed({"error_occurred"}) = {}

\* C27: a cancellation asked after the task's start and before its completed
\* signal is never lost: the task emits neither schedule_completed nor
\* model_completed nor progress 100, whatever the interleaving of the window
\* and the worker.
C27_CancelNeverLost ==
    cancel_asked =>
        /\ SignalsNamed(CompletedSignals) = {}
        /\ ProgressAt(100) = {}

\* the signals of a task so far: task_finished only after the worker method is
\* left, then once and last; a schedule task that left without stopping at a
\* cancellation check and without schedule_completed has one error_occurred
SignalsWellFormed ==
    /\ (ntasks > 0 /\ ~TaskOver) => SignalsNamed({"task_finished"}) = {}
    /\ TaskOver =>
          /\ SignalsNamed({"task_finished"}) = {Len(signals)}
          /\ (/\ TaskKind = "schedule"
              /\ stopped_at = 0
              /\ SignalsNamed({"schedule_completed"}) = {})
             => Cardinality(SignalsNamed({"error_occurred"})) = 1

\* the steps left to the worker at most, by its position
WkRank ==
    CASE wk_pc = "run"     -> 100
      [] wk_pc = "m54"     -> 99
      [] wk_pc = "m58"     -> 98
      [] wk_pc = "m61"     -> 97
      [] wk_pc = "s129"    -> 96
      [] wk_pc = "s132"    -> 95
      [] wk_pc = "s138"    -> 94
      [] wk_pc = "s140"    -> 93
      [] wk_pc = "s145"    -> 92
      [] wk_pc = "s164"    -> 91
      [] wk_pc = "except"  -> 90
      [] wk_pc = "m69"     -> 41 + 2 * (Cardinality(wk_args.ids) - wk_i)
      [] wk_pc = "m77"     -> 40 + 2 * (Cardinality(wk_args.ids) - wk_i)
      [] wk_pc = "m101"    -> 39
      [] wk_pc = "m104"    -> 38
      [] wk_pc = "finally" -> 20
      [] wk_pc = "done"    -> 10
      [] wk_pc = "idle"    -> 0

\* at every position of a started task the worker has a step to take
WorkerCanStep ==
    /\ wk_pc \in {"idle", "run", "s129", "s132", "s138", "s140", "s145", "s164",
                  "except", "m54", "m58", "m61", "m69", "m77", "m101", "m104",
                  "finally", "done"}
    /\ wk_pc = "s138" => (OptimizeReturns(wk_args) # {} \/ OptimizeRaises(wk_args))
    /\ wk_pc = "m77" => RunModelOutcomes(wk_args.selected_model) # {}
    /\ wk_pc \in {"m69", "m77"} => wk_i <= Cardinality(wk_args.ids)
    /\ wk_pc = "m77" => wk_i < Cardinality(wk_args.ids)

\* and every step the worker takes brings it nearer to the end of the task
WorkerAdvances ==
    \/ wk_pc = "idle"
    \/ UNCHANGED <<wk_pc, wk_i>>
    \/ WkRank' < WkRank

\* C28: every started task, model or schedule, emits task_finished exactly
\* once and as its last signal, on every path (success, no result, exception,
\* cancellation at any check); a schedule task neither cancelled nor completed
\* emits error_occurred exactly once, before task_finished.
C28_TaskFinishedOnceAndLast ==
    /\ []SignalsWellFormed
    /\ []WorkerCanStep
    /\ [][WorkerAdvances]_vars

C28_Witness ==
    /\ TaskOver
    /\ TaskKind = "schedule"
    /\ stopped_at = 140
    /\ signals = <<Progress(0), Progress(20), TaskFinished>>

\* while the thread runs, the thread's task kind and stored parameters are
\* those of the start, and so are the arguments the worker method works on
RunsWhatWasStarted ==
    /\ th_running =>
          /\ th_task = started_with.task
          /\ th_params = started_with.params
    /\ wk_pc \notin {"idle", "run"} => wk_args = started_with.params

\* a step taken while the thread runs starts no task, changes neither the task
\* kind nor the stored parameters, and a request among such steps returns False
RefusedWhileRunning ==
    th_running =>
        /\ ntasks' = ntasks
        /\ th_task' = th_task
        /\ th_params' = th_params
        /\ started_with' = started_with
        /\ last_ret' # last_ret => last_ret' = FALSE

\* C29: at most one compute task runs: a run_model_computation or
\* run_schedule_optimization request made while the thread is running returns
\* False, starts nothing and leaves the task kind and the stored parameters as
\* they are, so a running task works on the parameters it was started with.
C29_OneTaskAtATime ==
    /\ []RunsWhatWasStarted
    /\ [][RefusedWhileRunning]_vars

C29_Witness ==
    /\ ntasks = 1
    /\ th_running
    /\ last_ret = FALSE
    /\ wk_pc = "m77"
    /\ wk_args = started_with.params

\* C30: a model computation that stops at no cancellation check emits
\* model_completed exactly once, and the two mappings it carries split the
\* input reservoir ids: every id is a key of exactly one of reservoir_results
\* and failures, also the ids that come after a reservoir whose model raised
\* or returned None.
C30_EveryReservoirAccounted ==
    (TaskOver /\ TaskKind = "model" /\ stopped_at = 0)
    => /\ Cardinality(SignalsNamed({"model_completed"})) = 1
       /\ \A k \in SignalsNamed({"model_completed"}) :
             LET done   == signals[k].arg.reservoir_results
                 failed == FailedIds(signals[k].arg.failures)
             IN  /\ done \cap failed = {}
                 /\ done \cup failed = wk_args.ids
                 /\ Cardinality(signals[k].arg.failures) = Cardinality(failed)

C30_Witness ==
    /\ TaskOver
    /\ TaskKind = "model"
    /\ stopped_at = 0
    /\ \E k \in SignalsNamed({"model_completed"}) :
          /\ signals[k].arg.failures = {Failure(1, "exc"), Failure(2, "None")}
          /\ signals[k].arg.reservoir_results = {3}
====
